---- MODULE Spec2Model ----
(***************************************************************************)
(* A model of the rooc transformer: the TransformerContext frame stack,    *)
(* compound-name flattening, Exp::flatten and transform_problem.           *)
(***************************************************************************)
EXTENDS Integers, Sequences, FiniteSets, TLC

VARIABLES
    frames,     \* TransformerContext.frames: a sequence of Frame, root first
    last,       \* the last operation on the context: its arguments, its result, the frames before it
    exp,        \* the Exp handed to Exp::flatten
    out,        \* what Exp::flatten returned for exp
    calls,      \* the pending recursive calls of one run of Exp::flatten
    run         \* one run of transform_problem / flatten_compound_variable

vars == <<frames, last, exp, out, calls, run>>

(***************************************************************************)
(* Bounds of the model.                                                    *)
(***************************************************************************)
MaxFrames == 3
MaxBindings == 2
MaxNodes == 6
FlattenTimes == 2
MaxIndexes == 2
MaxSets == 2
MaxElems == 2
MaxConditions == 2

(***************************************************************************)
(* Primitive values (primitives/primitive.rs). A value carries its variant *)
(* and its payload; Absent is the model's "no entry" of a HashMap.         *)
(***************************************************************************)
Number(n) == [kind |-> "Number", num |-> n, str |-> ""]
String(s) == [kind |-> "String", num |-> 0, str |-> s]
GraphNode(s) == [kind |-> "GraphNode", num |-> 0, str |-> s]
Boolean(b) == [kind |-> "Boolean", num |-> IF b THEN 1 ELSE 0, str |-> ""]
Undefined == [kind |-> "Undefined", num |-> 0, str |-> ""]
Absent == [kind |-> "Absent", num |-> 0, str |-> ""]

Names == {"_", "i", "j"}
CtxValues == {Number(1), String("a")}

(***************************************************************************)
(* Results: Ok(value) or Err(TransformError).                              *)
(***************************************************************************)
NoFrame == [n \in Names |-> Absent]
Ok(v) == [ok |-> TRUE, err |-> "", name |-> "", val |-> v, frame |-> NoFrame]
OkFrame(f) == [ok |-> TRUE, err |-> "", name |-> "", val |-> Undefined, frame |-> f]
Err(kind, n) == [ok |-> FALSE, err |-> kind, name |-> n, val |-> Undefined, frame |-> NoFrame]
None == Ok(Absent)
Some(v) == Ok(v)
Unit == Undefined

(***************************************************************************)
(* Frame (a HashMap<String, Primitive>).                                   *)
(***************************************************************************)
Frame_new == [n \in Names |-> Absent]

has_variable(frame, name) == frame[name] # Absent

Frame_get_value(frame, name) == frame[name]

Frame_declare_variable(frame, name, value) ==
    IF has_variable(frame, name)
    THEN [frame |-> frame, res |-> Err("AlreadyExistingVariable", name)]
    ELSE [frame |-> [frame EXCEPT ![name] = value], res |-> Ok(Unit)]

Frame_update_variable(frame, name, value) ==
    IF ~has_variable(frame, name)
    THEN [frame |-> frame, res |-> Err("MissingVariable", name)]
    ELSE [frame |-> [frame EXCEPT ![name] = value], res |-> Ok(Unit)]

drop_variable(frame, name) ==
    IF ~has_variable(frame, name)
    THEN [frame |-> frame, res |-> Err("MissingVariable", name)]
    ELSE [frame |-> [frame EXCEPT ![name] = Absent], res |-> Ok(frame[name])]

(***************************************************************************)
(* TransformerContext: each operation maps the frame stack to the new      *)
(* frame stack and the operation's result.                                 *)
(***************************************************************************)
TransformerContext_new(primitives) == <<primitives>>

Front(s) == SubSeq(s, 1, Len(s) - 1)

add_populated_scope(fs, frame) == [frames |-> Append(fs, frame), res |-> Ok(Unit)]

\* Vec::pop on an empty vector returns None and leaves it empty.
replace_last_frame(fs, frame) ==
    [frames |-> Append(IF Len(fs) = 0 THEN fs ELSE Front(fs), frame), res |-> Ok(Unit)]

add_scope(fs) == [frames |-> Append(fs, Frame_new), res |-> Ok(Unit)]

\* Mutant: the guard lets the root frame be popped.
pop_scope_root(fs) ==
    IF Len(fs) < 1
    THEN [frames |-> fs, res |-> Err("Other", "Missing frame to pop")]
    ELSE [frames |-> Front(fs), res |-> OkFrame(fs[Len(fs)])]

pop_scope(fs) ==
    IF Len(fs) <= 1
    THEN [frames |-> fs, res |-> Err("Other", "Missing frame to pop")]
    ELSE [frames |-> Front(fs), res |-> OkFrame(fs[Len(fs)])]

\* The index of the innermost frame that binds name, 0 if none does
\* (the walk of frames.iter().rev()).
RECURSIVE InnermostFrom(_, _, _)
InnermostFrom(fs, name, k) ==
    IF k = 0 THEN 0
    ELSE IF has_variable(fs[k], name) THEN k
    ELSE InnermostFrom(fs, name, k - 1)

Innermost(fs, name) == InnermostFrom(fs, name, Len(fs))

\* Mutant: the lookup walks the frames from the root outward.
get_value_outermost(fs, name) ==
    IF \A k \in 1..Len(fs) : ~has_variable(fs[k], name)
    THEN Absent
    ELSE fs[CHOOSE k \in 1..Len(fs) :
                /\ has_variable(fs[k], name)
                /\ \A m \in 1..(k - 1) : ~has_variable(fs[m], name)][name]

get_value(fs, name) ==
    LET k == Innermost(fs, name)
    IN  IF k = 0 THEN Absent ELSE Frame_get_value(fs[k], name)

exists_variable(fs, name, strict) ==
    IF strict
    THEN Innermost(fs, name) # 0
    ELSE IF Len(fs) = 0 THEN FALSE ELSE has_variable(fs[Len(fs)], name)

\* Mutant: every declaration is checked against all frames, as if strict.
declare_variable_always_strict(fs, name, value, strict) ==
    IF name = "_"
    THEN [frames |-> fs, res |-> Ok(Unit)]
    ELSE IF get_value(fs, name) # Absent
    THEN [frames |-> fs, res |-> Err("AlreadyExistingVariable", name)]
    ELSE LET r == Frame_declare_variable(fs[Len(fs)], name, value)
         IN  [frames |-> [fs EXCEPT ![Len(fs)] = r.frame], res |-> r.res]

\* Mutant: the sink name is declared like any other name.
declare_variable_no_sink(fs, name, value, strict) ==
    IF strict /\ get_value(fs, name) # Absent
    THEN [frames |-> fs, res |-> Err("AlreadyExistingVariable", name)]
    ELSE LET r == Frame_declare_variable(fs[Len(fs)], name, value)
         IN  [frames |-> [fs EXCEPT ![Len(fs)] = r.frame], res |-> r.res]

declare_variable(fs, name, value, strict) ==
    IF name = "_"
    THEN [frames |-> fs, res |-> Ok(Unit)]
    ELSE IF strict /\ get_value(fs, name) # Absent
    THEN [frames |-> fs, res |-> Err("AlreadyExistingVariable", name)]
    ELSE LET r == Frame_declare_variable(fs[Len(fs)], name, value)
         IN  [frames |-> [fs EXCEPT ![Len(fs)] = r.frame], res |-> r.res]

\* Mutant: the walk stops at the outermost frame that binds the name.
update_variable_outermost(fs, name, value) ==
    IF name = "_"
    THEN [frames |-> fs, res |-> Ok(Unit)]
    ELSE IF \A k \in 1..Len(fs) : ~has_variable(fs[k], name)
    THEN [frames |-> fs, res |-> Err("MissingVariable", name)]
    ELSE LET k == CHOOSE k \in 1..Len(fs) :
                    /\ has_variable(fs[k], name)
                    /\ \A m \in 1..(k - 1) : ~has_variable(fs[m], name)
             r == Frame_update_variable(fs[k], name, value)
         IN  [frames |-> [fs EXCEPT ![k] = r.frame], res |-> r.res]

update_variable(fs, name, value) ==
    IF name = "_"
    THEN [frames |-> fs, res |-> Ok(Unit)]
    ELSE LET k == Innermost(fs, name)
         IN  IF k = 0
             THEN [frames |-> fs, res |-> Err("MissingVariable", name)]
             ELSE LET r == Frame_update_variable(fs[k], name, value)
                  IN  [frames |-> [fs EXCEPT ![k] = r.frame], res |-> r.res]

\* Mutant: the removal takes the binding of the outermost frame that binds the name.
remove_variable_outermost(fs, name) ==
    IF name = "_"
    THEN [frames |-> fs, res |-> Ok(Undefined)]
    ELSE IF \A k \in 1..Len(fs) : ~has_variable(fs[k], name)
    THEN [frames |-> fs, res |-> Err("MissingVariable", name)]
    ELSE LET k == CHOOSE k \in 1..Len(fs) :
                    /\ has_variable(fs[k], name)
                    /\ \A m \in 1..(k - 1) : ~has_variable(fs[m], name)
             r == drop_variable(fs[k], name)
         IN  [frames |-> [fs EXCEPT ![k] = r.frame], res |-> r.res]

remove_variable(fs, name) ==
    IF name = "_"
    THEN [frames |-> fs, res |-> Ok(Undefined)]
    ELSE LET k == Innermost(fs, name)
         IN  IF k = 0
             THEN [frames |-> fs, res |-> Err("MissingVariable", name)]
             ELSE LET r == drop_variable(fs[k], name)
                  IN  [frames |-> [fs EXCEPT ![k] = r.frame], res |-> r.res]

(***************************************************************************)
(* Spec: the TransformerContext under any sequence of its operations.      *)
(***************************************************************************)
Idle == "idle"

Bind(name, value) == [Frame_new EXCEPT ![name] = value]

\* The constants a context is built from (TransformerContext::new).
RootFrames == {Frame_new, Bind("i", Number(1)), [Bind("_", String("a")) EXCEPT !["j"] = Number(1)]}

\* The frames handed to add_populated_scope and replace_last_frame.
PopulatedFrames == {Bind("j", String("a")), [Bind("_", Number(1)) EXCEPT !["i"] = String("a")]}

Bindings(fs) == Cardinality({<<k, n>> \in (1..Len(fs)) \X Names : has_variable(fs[k], n)})

Record(op, name, value, strict, arg, r, before) ==
    [op |-> op, name |-> name, value |-> value, strict |-> strict, arg |-> arg,
     res |-> r.res, before |-> before]

NoOp == [op |-> "new", name |-> "", value |-> Undefined, strict |-> FALSE, arg |-> NoFrame,
         res |-> Ok(Unit), before |-> <<>>]

Init ==
    /\ \E primitives \in RootFrames : frames = TransformerContext_new(primitives)
    /\ last = NoOp
    /\ exp = Idle /\ out = Idle /\ calls = Idle /\ run = Idle

Step(op, name, value, strict, arg, r) ==
    /\ Len(r.frames) <= MaxFrames
    /\ Bindings(r.frames) <= MaxBindings
    /\ frames' = r.frames
    /\ last' = Record(op, name, value, strict, arg, r, frames)
    /\ UNCHANGED <<exp, out, calls, run>>

AddScope == Step("add_scope", "", Undefined, FALSE, NoFrame, add_scope(frames))

AddPopulatedScope ==
    \E f \in PopulatedFrames :
        Step("add_populated_scope", "", Undefined, FALSE, f, add_populated_scope(frames, f))

ReplaceLastFrame ==
    \E f \in PopulatedFrames :
        Step("replace_last_frame", "", Undefined, FALSE, f, replace_last_frame(frames, f))

PopScope == Step("pop_scope", "", Undefined, FALSE, NoFrame, pop_scope(frames))

GetValue ==
    \E name \in Names :
        Step("get_value", name, Undefined, FALSE, NoFrame,
             [frames |-> frames, res |-> Some(get_value(frames, name))])

DeclareVariable ==
    \E name \in Names, value \in CtxValues, strict \in BOOLEAN :
        Step("declare_variable", name, value, strict, NoFrame,
             declare_variable(frames, name, value, strict))

UpdateVariable ==
    \E name \in Names, value \in CtxValues :
        Step("update_variable", name, value, FALSE, NoFrame, update_variable(frames, name, value))

RemoveVariable ==
    \E name \in Names :
        Step("remove_variable", name, Undefined, FALSE, NoFrame, remove_variable(frames, name))

Next ==
    \/ AddScope
    \/ AddPopulatedScope
    \/ ReplaceLastFrame
    \/ PopScope
    \/ GetValue
    \/ DeclareVariable
    \/ UpdateVariable
    \/ RemoveVariable

Spec == Init /\ [][Next]_vars

(***************************************************************************)
(* Properties of the frame stack. B is the stack before the last           *)
(* operation, frames the stack after it.                                   *)
(***************************************************************************)
BindersOf(fs, name) == {k \in 1..Len(fs) : fs[k][name] # Absent}

MaxOf(S) == CHOOSE k \in S : \A m \in S : m <= k

SameExcept(fs, gs, k) ==
    /\ Len(fs) = Len(gs)
    /\ \A m \in 1..Len(fs) : m # k => fs[m] = gs[m]

\* C2: the frame stack always holds at least one frame; pop_scope with exactly
\* one frame returns an error and leaves the stack unchanged; with more than one
\* frame it removes exactly the top frame and returns it.
C2_PopScopeKeepsRoot ==
    /\ Len(frames) >= 1
    /\ last.op = "pop_scope" =>
        LET B == last.before
        IN  IF Len(B) = 1
            THEN ~last.res.ok /\ frames = B
            ELSE /\ last.res.ok
                 /\ Len(frames) = Len(B) - 1
                 /\ \A k \in 1..Len(frames) : frames[k] = B[k]
                 /\ last.res.frame = B[Len(B)]

C2_Witness ==
    /\ last.op = "pop_scope"
    /\ Len(last.before) = 1
    /\ ~last.res.ok
    /\ BindersOf(frames, "i") # {}

\* C3: declare_variable(name, value, strict), name other than "_": strict fails
\* with AlreadyExistingVariable if any frame binds name, non-strict only if the
\* top frame binds it; a failure changes no frame, a success adds exactly the
\* binding name -> value to the top frame.
C3_DeclareVariable ==
    (last.op = "declare_variable" /\ last.name # "_") =>
        LET B == last.before
            n == last.name
            fails == IF last.strict THEN BindersOf(B, n) # {} ELSE B[Len(B)][n] # Absent
        IN  IF fails
            THEN /\ ~last.res.ok
                 /\ last.res.err = "AlreadyExistingVariable"
                 /\ frames = B
            ELSE /\ last.res.ok
                 /\ SameExcept(frames, B, Len(B))
                 /\ frames[Len(B)] = [B[Len(B)] EXCEPT ![n] = last.value]

C3_Witness ==
    /\ last.op = "declare_variable"
    /\ last.name # "_"
    /\ ~last.strict
    /\ last.res.ok
    /\ \E k \in 1..(Len(last.before) - 1) : last.before[k][last.name] # Absent

\* C4: declare_variable, update_variable and remove_variable called with "_"
\* succeed and leave every frame unchanged; declare_variable and update_variable
\* (with any name) never bind "_" in a context that does not bind it.
C4_SinkName ==
    LET B == last.before
    IN  /\ (last.op \in {"declare_variable", "update_variable", "remove_variable"}
            /\ last.name = "_") => (last.res.ok /\ frames = B)
        /\ (last.op \in {"declare_variable", "update_variable"}
            /\ BindersOf(B, "_") = {}) => BindersOf(frames, "_") = {}

C4_Witness ==
    /\ last.op = "declare_variable"
    /\ last.name = "_"
    /\ Len(frames) >= 2
    /\ BindersOf(frames, "_") = {}

\* C5: update_variable(name, value), name other than "_", replaces the binding
\* of name in the innermost frame that binds it and changes nothing else; if no
\* frame binds name it returns MissingVariable and no frame changes.
C5_UpdateVariable ==
    (last.op = "update_variable" /\ last.name # "_") =>
        LET B == last.before
            n == last.name
        IN  IF BindersOf(B, n) = {}
            THEN /\ ~last.res.ok
                 /\ last.res.err = "MissingVariable"
                 /\ frames = B
            ELSE LET k == MaxOf(BindersOf(B, n))
                 IN  /\ last.res.ok
                     /\ SameExcept(frames, B, k)
                     /\ frames[k] = [B[k] EXCEPT ![n] = last.value]

C5_Witness ==
    /\ last.op = "update_variable"
    /\ last.name # "_"
    /\ last.res.ok
    /\ Cardinality(BindersOf(last.before, last.name)) >= 2
    /\ frames # last.before

\* The value a lookup of name finds after the innermost binding is gone.
NextOuter(B, n) ==
    LET rest == BindersOf(B, n) \ {MaxOf(BindersOf(B, n))}
    IN  IF rest = {} THEN Absent ELSE B[MaxOf(rest)][n]

GetValueInnermost ==
    last.op = "get_value" =>
        LET B == last.before
            n == last.name
        IN  /\ frames = B
            /\ last.res.val = IF BindersOf(B, n) = {} THEN Absent ELSE B[MaxOf(BindersOf(B, n))][n]

RemoveInnermost ==
    LET B == last.before
        n == last.name
    IN  IF BindersOf(B, n) = {}
        THEN /\ ~last.res.ok
             /\ last.res.err = "MissingVariable"
             /\ frames = B
        ELSE LET k == MaxOf(BindersOf(B, n))
             IN  /\ last.res.ok
                 /\ last.res.val = B[k][n]
                 /\ SameExcept(frames, B, k)
                 /\ frames[k] = [B[k] EXCEPT ![n] = Absent]
                 /\ get_value(frames, n) = NextOuter(B, n)

\* C6 as stated: get_value returns the innermost binding (None if there is
\* none); remove_variable(name), for every name, removes exactly the innermost
\* binding and returns it, a following get_value returns the next outer
\* binding, and without a binding it returns MissingVariable.
C6_AsStated ==
    /\ GetValueInnermost
    /\ last.op = "remove_variable" => RemoveInnermost

\* C6 amended: the same, for remove_variable with a name other than "_".
C6_GetAndRemove ==
    /\ GetValueInnermost
    /\ (last.op = "remove_variable" /\ last.name # "_") => RemoveInnermost

C6_Witness ==
    /\ last.op = "remove_variable"
    /\ last.name # "_"
    /\ last.res.ok
    /\ Cardinality(BindersOf(last.before, last.name)) >= 2
    /\ get_value(frames, last.name) # Absent
    /\ get_value(frames, last.name) # last.res.val

(***************************************************************************)
(* Exp, the expanded expression, and Exp::flatten.                         *)
(***************************************************************************)
Exp_Number(v) == [t |-> "Number", v |-> v]
Exp_Variable(n) == [t |-> "Variable", name |-> n]
Exp_BinOp(op, lhs, rhs) == [t |-> "BinOp", op |-> op, lhs |-> lhs, rhs |-> rhs]
Exp_UnOp(op, e) == [t |-> "UnOp", op |-> op, e |-> e]
Exp_Mod(e) == [t |-> "Mod", e |-> e]

BinOps == {"Add", "Sub", "Mul", "Div"}

make_binop(op, lhs, rhs) == Exp_BinOp(op, lhs, rhs)

IsSum(e) == e.t = "BinOp" /\ e.op \in {"Add", "Sub"}
IsNeg(e) == e.t = "UnOp" /\ e.op = "Neg"

\* The arm of the match in Exp::flatten that an expression takes, the first
\* that fits; 0 is the arm of an expression that is no BinOp.
Arm(e) ==
    IF e.t # "BinOp" THEN 0
    ELSE IF e.op = "Mul" /\ IsSum(e.lhs) THEN 1
    ELSE IF e.op = "Mul" /\ IsSum(e.rhs) THEN 2
    ELSE IF e.op = "Mul" /\ IsNeg(e.lhs) THEN 3
    ELSE IF e.op = "Mul" /\ IsNeg(e.rhs) THEN 4
    ELSE IF e.op = "Div" /\ IsSum(e.lhs) THEN 5
    ELSE 6

\* Mutant: the first arm hands the product itself back to flatten.
flatten_calls_same(e) ==
    CASE Arm(e) = 0 -> <<>>
      [] Arm(e) = 1 -> <<e>>
      [] Arm(e) = 2 ->
            <<Exp_BinOp(e.rhs.op, make_binop("Mul", e.lhs, e.rhs.lhs),
                                  make_binop("Mul", e.lhs, e.rhs.rhs))>>
      [] Arm(e) = 3 -> <<make_binop("Mul", e.lhs.e, e.rhs)>>
      [] Arm(e) = 4 -> <<make_binop("Mul", e.lhs, e.rhs.e)>>
      [] Arm(e) = 5 ->
            <<make_binop("Div", e.lhs.lhs, e.rhs), make_binop("Div", e.lhs.rhs, e.rhs)>>
      [] Arm(e) = 6 -> <<e.lhs, e.rhs>>

flatten_calls_lhs_twice(e) ==
    CASE Arm(e) = 0 -> <<>>
      [] Arm(e) = 1 ->
            <<Exp_BinOp(e.lhs.op, make_binop("Mul", e.lhs.lhs, e.rhs),
                                  make_binop("Mul", e.lhs.rhs, e.rhs))>>
      [] Arm(e) = 2 ->
            <<Exp_BinOp(e.rhs.op, make_binop("Mul", e.lhs, e.rhs.lhs),
                                  make_binop("Mul", e.lhs, e.rhs.lhs))>>
      [] Arm(e) = 3 -> <<make_binop("Mul", e.lhs.e, e.rhs)>>
      [] Arm(e) = 4 -> <<make_binop("Mul", e.lhs, e.rhs.e)>>
      [] Arm(e) = 5 ->
            <<make_binop("Div", e.lhs.lhs, e.rhs), make_binop("Div", e.lhs.rhs, e.rhs)>>
      [] Arm(e) = 6 -> <<e.lhs, e.rhs>>

\* The expressions Exp::flatten calls itself on for e, in call order.
flatten_calls(e) ==
    CASE Arm(e) = 0 -> <<>>
      [] Arm(e) = 1 ->
            <<Exp_BinOp(e.lhs.op, make_binop("Mul", e.lhs.lhs, e.rhs),
                                  make_binop("Mul", e.lhs.rhs, e.rhs))>>
      [] Arm(e) = 2 ->
            <<Exp_BinOp(e.rhs.op, make_binop("Mul", e.lhs, e.rhs.lhs),
                                  make_binop("Mul", e.lhs, e.rhs.rhs))>>
      [] Arm(e) = 3 -> <<make_binop("Mul", e.lhs.e, e.rhs)>>
      [] Arm(e) = 4 -> <<make_binop("Mul", e.lhs, e.rhs.e)>>
      [] Arm(e) = 5 ->
            <<make_binop("Div", e.lhs.lhs, e.rhs), make_binop("Div", e.lhs.rhs, e.rhs)>>
      [] Arm(e) = 6 -> <<e.lhs, e.rhs>>

RECURSIVE flatten(_)
flatten(e) ==
    LET c == flatten_calls(e)
    IN  CASE Arm(e) = 0 -> e
          [] Arm(e) \in {1, 2} -> flatten(c[1])
          [] Arm(e) \in {3, 4} -> Exp_UnOp("Neg", flatten(c[1]))
          [] Arm(e) = 5 -> Exp_BinOp(e.lhs.op, flatten(c[1]), flatten(c[2]))
          [] Arm(e) = 6 -> Exp_BinOp(e.op, flatten(c[1]), flatten(c[2]))

(***************************************************************************)
(* The expressions of at most MaxNodes nodes over one variable, one number,*)
(* the four binary operators and unary negation.                           *)
(***************************************************************************)
Leaves == {Exp_Variable("x"), Exp_Number(2)}

ExpsOfSize[n \in 1..MaxNodes] ==
    IF n = 1 THEN Leaves
    ELSE {Exp_UnOp("Neg", e) : e \in ExpsOfSize[n - 1]}
         \cup UNION {{Exp_BinOp(op, l, r) :
                         op \in BinOps, l \in ExpsOfSize[a], r \in ExpsOfSize[n - 1 - a]} :
                     a \in 1..(n - 2)}

\* A product that has another product, one with a sum as its operand, as its
\* operand.
NestedProducts ==
    LET sums == {Exp_BinOp(op, l, r) : op \in {"Add", "Sub"}, l \in Leaves, r \in Leaves}
    IN  {Exp_BinOp("Mul", Exp_BinOp("Mul", a, s), d) : a \in Leaves, s \in sums, d \in Leaves}
        \cup {Exp_BinOp("Mul", d, Exp_BinOp("Mul", s, a)) : a \in Leaves, s \in sums, d \in Leaves}

Exps == UNION {ExpsOfSize[n] : n \in 1..MaxNodes} \cup NestedProducts

RECURSIVE Nodes(_)
Nodes(e) ==
    CASE e.t = "BinOp" -> 1 + Nodes(e.lhs) + Nodes(e.rhs)
      [] e.t \in {"UnOp", "Mod"} -> 1 + Nodes(e.e)
      [] OTHER -> 1

(***************************************************************************)
(* SpecFlatten: Exp::flatten applied to an expression, and again to its    *)
(* result.                                                                 *)
(***************************************************************************)
InitFlatten ==
    /\ exp \in Exps
    /\ out = [n |-> 0, e |-> exp, prev |-> exp]
    /\ frames = Idle /\ last = Idle /\ calls = Idle /\ run = Idle

Flatten ==
    /\ out.n < FlattenTimes
    /\ out' = [n |-> out.n + 1, e |-> flatten(out.e), prev |-> out.e]
    /\ UNCHANGED <<exp, frames, last, calls, run>>

NextFlatten == Flatten

SpecFlatten == InitFlatten /\ [][NextFlatten]_vars

\* C7: flatten is idempotent: flatten(flatten(e)) is structurally equal to
\* flatten(e).
C7_FlattenIdempotent == out.n = 2 => out.e = out.prev

\* No Mul node has an Add, Sub or Neg node as a direct operand, and no Div node
\* has an Add or Sub node as its left operand.
RECURSIVE Pushed(_)
Pushed(e) ==
    CASE e.t = "BinOp" ->
            /\ e.op = "Mul" => ~(IsSum(e.lhs) \/ IsSum(e.rhs) \/ IsNeg(e.lhs) \/ IsNeg(e.rhs))
            /\ e.op = "Div" => ~IsSum(e.lhs)
            /\ Pushed(e.lhs)
            /\ Pushed(e.rhs)
      [] e.t \in {"UnOp", "Mod"} -> Pushed(e.e)
      [] OTHER -> TRUE

\* C8: flatten(e) has multiplication and division pushed over addition,
\* subtraction and negation.
C8_FlattenPushes == out.n = 1 => Pushed(out.e)

(***************************************************************************)
(* SpecCalls: one run of Exp::flatten as the stack of the calls it still   *)
(* has to make; a step makes the next call and stacks the calls that call  *)
(* makes in turn.                                                          *)
(***************************************************************************)
InitCalls ==
    /\ \E e \in Exps : calls = <<e>>
    /\ exp = Idle /\ out = Idle /\ frames = Idle /\ last = Idle /\ run = Idle

FlattenCall ==
    /\ calls # <<>>
    /\ calls' = flatten_calls(Head(calls)) \o Tail(calls)
    /\ UNCHANGED <<exp, out, frames, last, run>>

NextCalls == FlattenCall

SpecCalls == InitCalls /\ [][NextCalls]_vars /\ WF_vars(NextCalls)

\* C9: Exp::flatten terminates on every finite expression: every run makes
\* finitely many calls.
C9_FlattenTerminates == <>(calls = <<>>)

\* A call on an expression that a distribution arm has built: it is larger than
\* every expression a run starts from.
C9_Witness ==
    /\ calls # <<>>
    /\ Nodes(Head(calls)) > MaxNodes + 1

(***************************************************************************)
(* Compound-name flattening: flatten_variable_name and                     *)
(* flatten_compound_variable.                                              *)
(***************************************************************************)
OkStr(s) == [ok |-> TRUE, err |-> "", name |-> "", str |-> s]
ErrStr(kind, n) == [ok |-> FALSE, err |-> kind, name |-> n, str |-> ""]

Digit(d) ==
    CASE d = 0 -> "0" [] d = 1 -> "1" [] d = 2 -> "2" [] d = 3 -> "3" [] d = 4 -> "4"
      [] d = 5 -> "5" [] d = 6 -> "6" [] d = 7 -> "7" [] d = 8 -> "8" [] d = 9 -> "9"

RECURSIVE Decimal(_)
Decimal(n) == IF n < 10 THEN Digit(n) ELSE Decimal(n \div 10) \o Digit(n % 10)

\* f64::to_string of a whole number: its decimal digits, "-" first if negative.
to_string(n) == IF n < 0 THEN "-" \o Decimal(0 - n) ELSE Decimal(n)

\* The closure of the map in flatten_variable_name, for one index name.
flatten_one(fs, name) ==
    LET value == get_value(fs, name)
    IN  CASE value = Absent -> ErrStr("MissingVariable", name)
          [] value.kind = "Number" -> OkStr(to_string(value.num))
          [] value.kind = "String" -> OkStr(value.str)
          [] value.kind = "GraphNode" -> OkStr(value.str)
          [] OTHER -> ErrStr("WrongArgument", name)

\* [String]::join
RECURSIVE join(_, _)
join(strs, sep) ==
    IF Len(strs) = 0 THEN ""
    ELSE IF Len(strs) = 1 THEN strs[1]
    ELSE strs[1] \o sep \o join(Tail(strs), sep)

\* Mutant: the error of the last failing index name is the one returned.
flatten_variable_name_last_error(fs, compound_name) ==
    LET rs == [k \in 1..Len(compound_name) |-> flatten_one(fs, compound_name[k])]
        bad == {k \in 1..Len(rs) : ~rs[k].ok}
    IN  IF bad # {}
        THEN rs[CHOOSE k \in bad : \A m \in bad : m <= k]
        ELSE OkStr(join([k \in 1..Len(rs) |-> rs[k].str], "_"))

\* The map is lazy and collect::<Result<Vec<_>, _>> stops at the first Err.
flatten_variable_name(fs, compound_name) ==
    LET rs == [k \in 1..Len(compound_name) |-> flatten_one(fs, compound_name[k])]
        bad == {k \in 1..Len(rs) : ~rs[k].ok}
    IN  IF bad # {}
        THEN rs[CHOOSE k \in bad : \A m \in bad : k <= m]
        ELSE OkStr(join([k \in 1..Len(rs) |-> rs[k].str], "_"))

flatten_compound_variable(fs, name, indexes) ==
    LET names == flatten_variable_name(fs, indexes)
    IN  IF ~names.ok THEN names ELSE OkStr(name \o "_" \o names.str)

(***************************************************************************)
(* SpecName: flatten_compound_variable on a context and an index list.     *)
(***************************************************************************)
NameValues == {Number(12), Number(-3), String("a"), GraphNode("n"), Boolean(TRUE)}

\* The contexts: a root frame, under nothing or under a frame that binds "i".
NameContexts ==
    LET roots == [Names -> NameValues \cup {Absent}]
    IN  {<<r>> : r \in roots} \cup {<<r, Bind("i", String("b"))>> : r \in roots}

Stems == {"x"}

IndexLists == UNION {[1..n -> Names] : n \in 0..MaxIndexes}

InitName ==
    /\ frames \in NameContexts
    /\ \E stem \in Stems, indexes \in IndexLists :
          run = [stem |-> stem, indexes |-> indexes, done |-> FALSE, res |-> OkStr(""),
                 before |-> frames]
    /\ last = Idle /\ exp = Idle /\ out = Idle /\ calls = Idle

FlattenCompoundVariable ==
    /\ ~run.done
    /\ run' = [run EXCEPT !.done = TRUE,
                          !.res = flatten_compound_variable(frames, run.stem, run.indexes)]
    /\ UNCHANGED <<frames, last, exp, out, calls>>

NextName == FlattenCompoundVariable

SpecName == InitName /\ [][NextName]_vars

\* What the claim says of an index name: the value it resolves to, and the text
\* of that value.
Resolved(fs, n) == IF BindersOf(fs, n) = {} THEN Absent ELSE fs[MaxOf(BindersOf(fs, n))][n]

Rendering(v) == IF v.kind = "Number" THEN ToString(v.num) ELSE v.str

Renderable(v) == v.kind \in {"Number", "String", "GraphNode"}

RECURSIVE Suffixes(_, _)
Suffixes(fs, indexes) ==
    IF Len(indexes) = 0 THEN ""
    ELSE "_" \o Rendering(Resolved(fs, indexes[1])) \o Suffixes(fs, Tail(indexes))

FlattenedAsClaimed ==
    LET fs == run.before
        idx == run.indexes
        bad == {k \in 1..Len(idx) : ~Renderable(Resolved(fs, idx[k]))}
    IN  /\ frames = fs
        /\ IF bad = {}
           THEN run.res.ok /\ run.res.str = run.stem \o Suffixes(fs, idx)
           ELSE LET k == CHOOSE k \in bad : \A m \in bad : k <= m
                IN  /\ ~run.res.ok
                    /\ run.res.name = idx[k]
                    /\ run.res.err = IF Resolved(fs, idx[k]) = Absent
                                     THEN "MissingVariable" ELSE "WrongArgument"

\* C10 as stated: for every index list, the stem followed, for each index name in
\* order, by "_" and the rendering of its value; MissingVariable or
\* WrongArgument of the leftmost failing index name; the context unchanged.
C10_AsStated == run.done => FlattenedAsClaimed

\* C10 amended: the same for every non-empty index list; for the empty list the
\* result is the stem followed by one "_".
C10_FlattenCompound ==
    run.done =>
        IF Len(run.indexes) = 0
        THEN run.res.ok /\ run.res.str = run.stem \o "_" /\ frames = run.before
        ELSE FlattenedAsClaimed

C10_Witness ==
    /\ run.done
    /\ run.indexes = <<"i", "j">>
    /\ Len(frames) = 2
    /\ run.res.ok
    /\ run.res.str = "x_b_12"

(***************************************************************************)
(* transform_problem. A PreExp is a number or a compound variable; an      *)
(* iteration set binds one name to the elements of an iterable. A          *)
(* transformation returns the frame stack it leaves, Ok with what it       *)
(* produced (out) or Err with the error and the number of SpannedError     *)
(* wraps around it.                                                        *)
(***************************************************************************)
PreExp_Number(v) == [t |-> "Number", v |-> v, stem |-> "", indexes |-> <<>>]
PreExp_CompoundVariable(stem, indexes) ==
    [t |-> "CompoundVariable", v |-> 0, stem |-> stem, indexes |-> indexes]

TOk(fs, o) == [frames |-> fs, ok |-> TRUE, err |-> "", name |-> "", spans |-> 0, out |-> o]
TErr(fs, kind, n, spans) ==
    [frames |-> fs, ok |-> FALSE, err |-> kind, name |-> n, spans |-> spans, out |-> <<>>]

to_spanned_error(r) == [r EXCEPT !.spans = r.spans + 1]

\* The value of F at v, with v computed once.
With(v, F(_)) == CHOOSE y \in {F(x) : x \in {v}} : TRUE

\* PreExp::into_exp, for the two kinds of PreExp of the model.
into_exp(pre, fs) ==
    IF pre.t = "Number"
    THEN TOk(fs, Exp_Number(pre.v))
    ELSE With(flatten_compound_variable(fs, pre.stem, pre.indexes), LAMBDA r :
             IF r.ok THEN TOk(fs, Exp_Variable(r.str)) ELSE TErr(fs, r.err, r.name, 0))

Condition_new(lhs, condition_type, rhs) ==
    [lhs |-> lhs, condition_type |-> condition_type, rhs |-> rhs]

transform_condition(condition, fs) ==
    With(into_exp(condition.lhs, fs), LAMBDA lhs :
        IF ~lhs.ok THEN lhs
        ELSE With(into_exp(condition.rhs, lhs.frames), LAMBDA rhs :
                 IF ~rhs.ok THEN rhs
                 ELSE TOk(rhs.frames,
                          Condition_new(lhs.out, condition.condition_type, rhs.out))))

\* The scope of element k of the set of current_level: a frame with the binding.
open_element(condition, fs, current_level, k) ==
    LET set == condition.iteration[current_level]
    IN  declare_variable(add_scope(fs).frames, set.var, set.iter[k], FALSE)

\* Mutant: the transformed condition is put before the results so far.
on_leaf_prepends(condition, fs, results) ==
    With(transform_condition(condition, fs),
         LAMBDA leaf : IF leaf.ok THEN TOk(leaf.frames, <<leaf.out>> \o results) ELSE leaf)

\* The innermost level: the condition is transformed and added to results.
on_leaf(condition, fs, results) ==
    With(transform_condition(condition, fs),
         LAMBDA leaf : IF leaf.ok THEN TOk(leaf.frames, Append(results, leaf.out)) ELSE leaf)

\* Mutant: an error leaves the scope of the element it was raised under open.
RECURSIVE resolve_from_no_unwind(_, _, _, _, _)
resolve_from_no_unwind(condition, fs, results, current_level, k) ==
    IF k > Len(condition.iteration[current_level].iter) THEN TOk(fs, results)
    ELSE With(open_element(condition, fs, current_level, k), LAMBDA scoped :
         With(IF ~scoped.res.ok
              THEN TErr(scoped.frames, scoped.res.err, scoped.res.name, 0)
              ELSE IF current_level + 1 > Len(condition.iteration)
              THEN on_leaf(condition, scoped.frames, results)
              ELSE resolve_from_no_unwind(condition, scoped.frames, results,
                                          current_level + 1, 1),
              LAMBDA inner :
                  IF ~inner.ok THEN inner
                  ELSE LET closed == pop_scope(inner.frames)
                       IN  IF ~closed.res.ok
                           THEN TErr(closed.frames, closed.res.err, closed.res.name, 0)
                           ELSE resolve_from_no_unwind(condition, closed.frames, inner.out,
                                                       current_level, k + 1)))

\* recursive_set_resolver from element k of the set of current_level on: for
\* each element a scope is pushed with the binding, the next set is resolved
\* (or, at the innermost level, the condition is transformed into results), and
\* the scope is popped, also when an error passes through.
RECURSIVE resolve_from(_, _, _, _, _)
resolve_from(condition, fs, results, current_level, k) ==
    IF k > Len(condition.iteration[current_level].iter) THEN TOk(fs, results)
    ELSE With(open_element(condition, fs, current_level, k), LAMBDA scoped :
         With(IF ~scoped.res.ok
              THEN TErr(scoped.frames, scoped.res.err, scoped.res.name, 0)
              ELSE IF current_level + 1 > Len(condition.iteration)
              THEN on_leaf(condition, scoped.frames, results)
              ELSE resolve_from(condition, scoped.frames, results, current_level + 1, 1),
              LAMBDA inner :
                  LET closed == pop_scope(inner.frames)
                  IN  IF ~inner.ok THEN [inner EXCEPT !.frames = closed.frames]
                      ELSE IF ~closed.res.ok
                      THEN TErr(closed.frames, closed.res.err, closed.res.name, 0)
                      ELSE resolve_from(condition, closed.frames, inner.out,
                                        current_level, k + 1)))

recursive_set_resolver(condition, fs, results, current_level) ==
    resolve_from(condition, fs, results, current_level, 1)

transform_condition_with_iteration(condition, fs) ==
    IF Len(condition.iteration) = 0
    THEN With(transform_condition(condition, fs),
              LAMBDA r : IF r.ok THEN TOk(r.frames, <<r.out>>) ELSE r)
    ELSE With(recursive_set_resolver(condition, fs, <<>>, 1),
              LAMBDA r : IF r.ok THEN r ELSE to_spanned_error(r))

transform_objective(objective, fs) == into_exp(objective, fs)

\* The loop of transform_problem over the conditions from the k-th on.
RECURSIVE transform_conditions(_, _, _, _)
transform_conditions(conds, fs, conditions, k) ==
    IF k > Len(conds) THEN TOk(fs, conditions)
    ELSE With(transform_condition_with_iteration(conds[k], fs), LAMBDA transformed :
             IF ~transformed.ok THEN transformed
             ELSE transform_conditions(conds, transformed.frames,
                                       conditions \o transformed.out, k + 1))

transform_problem(problem, fs) ==
    With(transform_objective(problem.objective, fs), LAMBDA objective :
        IF ~objective.ok THEN objective
        ELSE With(transform_conditions(problem.conditions, objective.frames, <<>>, 1),
                  LAMBDA r :
                      IF ~r.ok THEN r
                      ELSE TOk(r.frames, [objective |-> objective.out, conditions |-> r.out])))

(***************************************************************************)
(* SpecProblem: transform_problem on a context and a PreProblem.           *)
(***************************************************************************)
\* The name the iteration set of a level binds.
LevelVar(level) == CASE level = 1 -> "i" [] level = 2 -> "j" [] OTHER -> "_"

IterableSet(level, m) == [var |-> LevelVar(level), iter |-> [k \in 1..m |-> Number(k)]]

Bodies == {PreExp_CompoundVariable("x", <<"i">>), PreExp_CompoundVariable("x", <<"j">>)}

PreConditions ==
    {[lhs |-> body, condition_type |-> "Equal", rhs |-> PreExp_Number(1),
      iteration |-> [level \in 1..n |-> IterableSet(level, m)]] :
        body \in Bodies, n \in 0..MaxSets, m \in {0, MaxElems}}

PreProblems ==
    {[objective |-> objective, conditions |-> conditions] :
        objective \in {PreExp_Number(1), PreExp_CompoundVariable("x", <<"j">>)},
        conditions \in UNION {[1..n -> PreConditions] : n \in 0..MaxConditions}}

ProblemContexts ==
    {<<Frame_new>>, <<Bind("j", Number(7))>>, <<Bind("i", String("a")), Frame_new>>}

InitProblem ==
    /\ frames \in ProblemContexts
    /\ \E problem \in PreProblems :
          run = [problem |-> problem, done |-> FALSE, before |-> frames,
                 res |-> TOk(frames, <<>>)]
    /\ last = Idle /\ exp = Idle /\ out = Idle /\ calls = Idle

TransformProblem ==
    /\ ~run.done
    /\ \E r \in {transform_problem(run.problem, frames)} :
          /\ frames' = r.frames
          /\ run' = [run EXCEPT !.done = TRUE, !.res = r]
    /\ UNCHANGED <<last, exp, out, calls>>

NextProblem == TransformProblem

SpecProblem == InitProblem /\ [][NextProblem]_vars

DistinctValues == {Number(1), String("1"), String("1_1")}

DistinctContexts == {<<r>> : r \in [Names -> DistinctValues \cup {Absent}]}

InitDistinct ==
    /\ frames \in DistinctContexts
    /\ \E stem \in Stems, indexes \in IndexLists, other \in IndexLists :
          run = [stem |-> stem, indexes |-> indexes, other |-> other, done |-> FALSE,
                 res |-> OkStr(""), res_other |-> OkStr("")]
    /\ last = Idle /\ exp = Idle /\ out = Idle /\ calls = Idle

FlattenBoth ==
    /\ ~run.done
    /\ run' = [run EXCEPT !.done = TRUE,
                          !.res = flatten_compound_variable(frames, run.stem, run.indexes),
                          !.res_other = flatten_compound_variable(frames, run.stem, run.other)]
    /\ UNCHANGED <<frames, last, exp, out, calls>>

NextDistinct == FlattenBoth

SpecDistinct == InitDistinct /\ [][NextDistinct]_vars

\* The tuple of values the names of an index list resolve to.
ValueTuple(fs, indexes) == [k \in 1..Len(indexes) |-> Resolved(fs, indexes[k])]

\* C11: for a fixed stem, two index lists whose names resolve to different
\* tuples of Number, String or GraphNode values never flatten to the same
\* identifier.
C11_DistinctIdentifiers ==
    (/\ run.done
     /\ run.res.ok
     /\ run.res_other.ok
     /\ ValueTuple(frames, run.indexes) # ValueTuple(frames, run.other))
    => run.res.str # run.res_other.str

(***************************************************************************)
(* Iterables (primitives/iterable.rs). An IterableKind carries its variant *)
(* and its vector; a PrimitiveKind is the sequence of its Iterable         *)
(* wrappers followed by the kind they wrap.                                *)
(***************************************************************************)
IterableKind_Numbers(v) == [kind |-> "Numbers", value |-> v]
IterableKind_Strings(v) == [kind |-> "Strings", value |-> v]
IterableKind_Booleans(v) == [kind |-> "Booleans", value |-> v]
IterableKind_Iterable(v) == [kind |-> "Iterable", value |-> v]

Primitive_Iterable(i) == [kind |-> "Iterable", num |-> 0, str |-> "", iter |-> i]

PrimitiveKind_Number == <<"Number">>
PrimitiveKind_String == <<"String">>
PrimitiveKind_Boolean == <<"Boolean">>
PrimitiveKind_GraphNode == <<"GraphNode">>
PrimitiveKind_Undefined == <<"Undefined">>
PrimitiveKind_Iterable(k) == <<"Iterable">> \o k

RECURSIVE get_type(_)
get_type(i) ==
    CASE i.kind = "Numbers" -> PrimitiveKind_Number
      [] i.kind = "Strings" -> PrimitiveKind_String
      [] i.kind = "Booleans" -> PrimitiveKind_Boolean
      [] i.kind = "Iterable" ->
            PrimitiveKind_Iterable(IF Len(i.value) = 0 THEN PrimitiveKind_Undefined
                                   ELSE get_type(i.value[1]))

from_primitive(p) ==
    CASE p.kind = "Number" -> PrimitiveKind_Number
      [] p.kind = "String" -> PrimitiveKind_String
      [] p.kind = "Iterable" -> get_type(p.iter)
      [] p.kind = "GraphNode" -> PrimitiveKind_GraphNode
      [] p.kind = "Boolean" -> PrimitiveKind_Boolean
      [] p.kind = "Undefined" -> PrimitiveKind_Undefined

\* The results of read: Ok(Primitive), Err(TransformError), or the panic of
\* indexing an empty Vec.
ROk(p) == [ok |-> TRUE, err |-> "", val |-> p]
RErr(kind) == [ok |-> FALSE, err |-> kind, val |-> Undefined]
Panic == RErr("panic")

\* The $mapper of check_bounds!, for each variant: the Primitive of v[i].
mapper(current, i) ==
    CASE current.kind = "Numbers" -> Number(current.value[i + 1])
      [] current.kind = "Strings" -> String(current.value[i + 1])
      [] current.kind = "Booleans" -> Boolean(current.value[i + 1])
      [] current.kind = "Iterable" -> Primitive_Iterable(current.value[i + 1])

check_bounds(i, current) ==
    IF i < Len(current.value) THEN ROk(mapper(current, i)) ELSE RErr("OutOfBounds")

\* Mutant: a level that is not a nested iterable is read at the index that
\* addresses it and the indexes that remain are dropped.
RECURSIVE read_loop_drops_rest(_, _)
read_loop_drops_rest(current, indexes) ==
    IF Len(indexes) = 0 THEN Panic
    ELSE IF Len(indexes) = 1 \/ current.kind # "Iterable"
    THEN check_bounds(Head(indexes), current)
    ELSE IF Head(indexes) < Len(current.value)
    THEN read_loop_drops_rest(current.value[Head(indexes) + 1], Tail(indexes))
    ELSE RErr("OutOfBounds")

\* The while loop of read from its test on: leaving the loop reaches
\* indexes[0] of an empty Vec.
RECURSIVE read_loop(_, _)
read_loop(current, indexes) ==
    IF Len(indexes) = 0 THEN Panic
    ELSE IF Len(indexes) = 1
    THEN check_bounds(Head(indexes), current)
    ELSE IF current.kind = "Iterable"
    THEN IF Head(indexes) < Len(current.value)
         THEN read_loop(current.value[Head(indexes) + 1], Tail(indexes))
         ELSE RErr("OutOfBounds")
    ELSE RErr("OutOfBounds")

read(self, indexes) ==
    IF Len(indexes) = 0 THEN ROk(Undefined) ELSE read_loop(self, indexes)

as_iterator(p) == IF p.kind = "Iterable" THEN ROk(p) ELSE RErr("WrongArgument")

\* TransformerContext::get_addressable_value, the accesses already usize.
get_addressable_value(fs, name, accesses) ==
    With(get_value(fs, name), LAMBDA a :
        IF a = Absent THEN RErr("MissingVariable")
        ELSE IF ~as_iterator(a).ok THEN as_iterator(a)
        ELSE read(a.iter, accesses))

(***************************************************************************)
(* TypeCheckerContext (type_checker/type_checker_context.rs): the frames   *)
(* bind names to kinds; NoKind is the model's "no entry".                  *)
(***************************************************************************)
NoKind == <<>>

TOkKind(k) == [ok |-> TRUE, err |-> "", kind |-> k]
TErrKind(e) == [ok |-> FALSE, err |-> e, kind |-> NoKind]

RECURSIVE TypeCheckerContext_get_value_from(_, _, _)
TypeCheckerContext_get_value_from(tfs, name, k) ==
    IF k = 0 THEN NoKind
    ELSE IF tfs[k][name] # NoKind THEN tfs[k][name]
    ELSE TypeCheckerContext_get_value_from(tfs, name, k - 1)

TypeCheckerContext_get_value(tfs, name) == TypeCheckerContext_get_value_from(tfs, name, Len(tfs))

\* The while let of get_addressable_value: the Iterable wrappers are counted
\* and stripped.
RECURSIVE strip_iterables(_, _)
strip_iterables(last_value, depth) ==
    IF Head(last_value) = "Iterable"
    THEN strip_iterables(Tail(last_value), depth + 1)
    ELSE [depth |-> depth, last_value |-> last_value]

TypeCheckerContext_get_addressable_value(tfs, name, access_types) ==
    With(TypeCheckerContext_get_value(tfs, name), LAMBDA v :
        IF v = NoKind THEN TErrKind("MissingVariable")
        ELSE IF \E k \in 1..Len(access_types) : access_types[k] # PrimitiveKind_Number
        THEN TErrKind("WrongArgument")
        ELSE With(strip_iterables(v, 0), LAMBDA stripped :
                 IF stripped.depth > Len(access_types)
                 THEN TErrKind("OutOfBounds")
                 ELSE TOkKind(stripped.last_value)))

(***************************************************************************)
(* SpecRead: an addressable access name[e1]..[ek] is type checked and then *)
(* evaluated on a context that binds "i".                                  *)
(***************************************************************************)
MaxDepth == 2

Positions == {0, 1}

Vectors(S) == {<<>>} \cup {<<a>> : a \in S} \cup {<<a, b>> : a \in S, b \in S}

FlatIterables ==
    {IterableKind_Numbers(<<1, 2>>), IterableKind_Numbers(<<>>),
     IterableKind_Strings(<<"a">>), IterableKind_Booleans(<<TRUE>>)}

RECURSIVE IterablesOfDepth(_)
IterablesOfDepth(d) ==
    IF d = 1 THEN FlatIterables
    ELSE IterablesOfDepth(d - 1)
         \cup {IterableKind_Iterable(v) : v \in Vectors(IterablesOfDepth(d - 1))}

Iterables == IterablesOfDepth(MaxDepth)

ReadValues == {Primitive_Iterable(i) : i \in Iterables} \cup {Number(1)}

ReadNames == {"i", "j"}

AccessLists == UNION {[1..n -> Positions] : n \in 0..(MaxDepth + 1)}

\* The kinds of the constants, as the type checker is given them.
KindsOf(fs) ==
    [k \in 1..Len(fs) |->
        [n \in Names |-> IF fs[k][n] = Absent THEN NoKind ELSE from_primitive(fs[k][n])]]

InitRead ==
    /\ \E value \in ReadValues : frames = <<Bind("i", value)>>
    /\ \E name \in ReadNames, accesses \in AccessLists :
          run = [name |-> name, accesses |-> accesses, checked |-> FALSE, done |-> FALSE,
                 type |-> TErrKind(""), res |-> RErr("")]
    /\ last = Idle /\ exp = Idle /\ out = Idle /\ calls = Idle

TypeCheck ==
    /\ ~run.checked
    /\ run' = [run EXCEPT
                 !.checked = TRUE,
                 !.type = TypeCheckerContext_get_addressable_value(
                              KindsOf(frames), run.name,
                              [k \in 1..Len(run.accesses) |-> PrimitiveKind_Number])]
    /\ UNCHANGED <<frames, last, exp, out, calls>>

Evaluate ==
    /\ run.checked
    /\ ~run.done
    /\ run' = [run EXCEPT !.done = TRUE,
                          !.res = get_addressable_value(frames, run.name, run.accesses)]
    /\ UNCHANGED <<frames, last, exp, out, calls>>

NextRead == TypeCheck \/ Evaluate

SpecRead == InitRead /\ [][NextRead]_vars

\* What the claims say of an access: the level index p addresses (an empty
\* level if the indexes before p do not lead to one), whether p is reached, and
\* whether the access fails at p.
Nowhere == IterableKind_Numbers(<<>>)

RECURSIVE LevelAt(_, _, _)
LevelAt(i, indexes, p) ==
    IF p = 1 THEN i
    ELSE LET up == LevelAt(i, indexes, p - 1)
         IN  IF up.kind = "Iterable" /\ indexes[p - 1] < Len(up.value)
             THEN up.value[indexes[p - 1] + 1]
             ELSE Nowhere

RECURSIVE Reached(_, _, _)
Reached(i, indexes, p) ==
    \/ p = 1
    \/ /\ Reached(i, indexes, p - 1)
       /\ LevelAt(i, indexes, p - 1).kind = "Iterable"
       /\ indexes[p - 1] < Len(LevelAt(i, indexes, p - 1).value)

FailsAt(i, indexes, p) ==
    \/ indexes[p] >= Len(LevelAt(i, indexes, p).value)
    \/ p < Len(indexes) /\ LevelAt(i, indexes, p).kind # "Iterable"

\* The access of the run is an access of an iterable with at least one index.
ReadsIterable ==
    /\ run.done
    /\ run.name = "i"
    /\ frames[1]["i"].kind = "Iterable"
    /\ Len(run.accesses) >= 1

\* C12: read with a non-empty index list returns the element at the last index
\* of the level the indexes before it lead to; it returns OutOfBounds whenever
\* an index is not smaller than the length of its level or an index remains at
\* a level that is not a nested iterable; the fall-through after the loop is
\* never reached.
C12_Read ==
    ReadsIterable =>
        LET i == frames[1]["i"].iter
            indexes == run.accesses
            n == Len(indexes)
        IN  /\ run.res # Panic
            /\ IF \E p \in 1..n : FailsAt(i, indexes, p)
               THEN run.res = RErr("OutOfBounds")
               ELSE run.res = ROk(mapper(LevelAt(i, indexes, n), indexes[n]))

\* Two levels are followed to a number, and one level to a nested iterable.
C12_Witness ==
    /\ ReadsIterable
    /\ run.accesses = <<1, 1>>
    /\ run.res = ROk(Number(2))

\* C13: when the type checker accepts name[e1]..[ek] with kind K, every read
\* of a value of the base kind with k indexes that are in range at each level
\* reached succeeds and returns a value of kind K.
C13_KindAgrees ==
    (/\ ReadsIterable
     /\ run.type.ok
     /\ \A p \in 1..Len(run.accesses) :
            Reached(frames[1]["i"].iter, run.accesses, p)
            => run.accesses[p] < Len(LevelAt(frames[1]["i"].iter, run.accesses, p).value))
    => /\ run.res.ok
       /\ from_primitive(run.res.val) = run.type.kind

(***************************************************************************)
(* SpecIteration: transform_condition_with_iteration on a context and one  *)
(* condition whose iteration sets have independent sizes.                  *)
(***************************************************************************)
IterationBodies ==
    {PreExp_CompoundVariable("x", <<"i", "j">>), PreExp_CompoundVariable("x", <<"j", "i">>),
     PreExp_CompoundVariable("x", <<"i">>)}

IterationConditions ==
    {[lhs |-> body, condition_type |-> "Equal", rhs |-> PreExp_Number(1),
      iteration |-> [level \in 1..Len(sizes) |-> IterableSet(level, sizes[level])]] :
        body \in IterationBodies,
        sizes \in UNION {[1..n -> 0..MaxElems] : n \in 0..MaxSets}}

InitIteration ==
    /\ frames \in ProblemContexts
    /\ \E condition \in IterationConditions :
          run = [condition |-> condition, done |-> FALSE, before |-> frames,
                 res |-> TOk(frames, <<>>)]
    /\ last = Idle /\ exp = Idle /\ out = Idle /\ calls = Idle

TransformConditionWithIteration ==
    /\ ~run.done
    /\ \E r \in {transform_condition_with_iteration(run.condition, frames)} :
          /\ frames' = r.frames
          /\ run' = [run EXCEPT !.done = TRUE, !.res = r]
    /\ UNCHANGED <<last, exp, out, calls>>

NextIteration == TransformConditionWithIteration

SpecIteration == InitIteration /\ [][NextIteration]_vars

\* The tuples of the outer product of sets of the given sizes, in outer-major
\* order; an element is named by its position in its set.
RECURSIVE TuplesOf(_)
TuplesOf(sizes) ==
    IF Len(sizes) = 0 THEN << <<>> >>
    ELSE LET rest == TuplesOf(Tail(sizes))
             r == Len(rest)
         IN  [q \in 1..(Head(sizes) * r) |-> <<((q - 1) \div r) + 1>> \o rest[((q - 1) % r) + 1]]

\* The context in which the condition of a tuple is transformed: one frame per
\* set on top of the context, binding the name of the set to the element.
ScopesOf(fs, iteration, tuple) ==
    fs \o [level \in 1..Len(tuple) |->
              IF iteration[level].var = "_" THEN Frame_new
              ELSE Bind(iteration[level].var, iteration[level].iter[tuple[level]])]

\* The condition the claim expects for a tuple.
ExpectedCondition(condition, fs, tuple) ==
    Condition_new(Exp_Variable(condition.lhs.stem
                               \o Suffixes(ScopesOf(fs, condition.iteration, tuple),
                                           condition.lhs.indexes)),
                  condition.condition_type, Exp_Number(condition.rhs.v))

TupleResolves(condition, fs, tuple) ==
    \A k \in 1..Len(condition.lhs.indexes) :
        Renderable(Resolved(ScopesOf(fs, condition.iteration, tuple), condition.lhs.indexes[k]))

SizesOf(condition) == [level \in 1..Len(condition.iteration) |-> Len(condition.iteration[level].iter)]

\* C14: a condition with iteration sets S1..Sk is expanded into one condition
\* per tuple of the outer product of the sets, in outer-major order; without
\* iteration sets it yields exactly one condition.
C14_OuterProduct ==
    run.done =>
        LET tuples == TuplesOf(SizesOf(run.condition))
        IN  IF \A q \in 1..Len(tuples) : TupleResolves(run.condition, run.before, tuples[q])
            THEN /\ run.res.ok
                 /\ run.res.out = [q \in 1..Len(tuples) |->
                                      ExpectedCondition(run.condition, run.before, tuples[q])]
            ELSE ~run.res.ok

\* Two sets of different sizes, both bound names used, in the two orders.
C14_Witness ==
    /\ run.done
    /\ run.res.ok
    /\ Len(run.condition.iteration) = 2
    /\ Len(run.condition.iteration[1].iter) = 2
    /\ Len(run.condition.iteration[2].iter) = 1
    /\ Len(run.res.out) = 2
    /\ run.res.out[2].lhs = Exp_Variable("x_1_2")

(***************************************************************************)
(* SpecLoop: transform_problem step by step: the objective, then one pass  *)
(* of the for loop per condition, then the return. run.evaluated lists     *)
(* what has been evaluated: 0 for the objective, k for the k-th condition. *)
(***************************************************************************)
Problem_new(objective, conditions) == [objective |-> objective, conditions |-> conditions]

InitLoop ==
    /\ frames \in ProblemContexts
    /\ \E problem \in PreProblems :
          run = [problem |-> problem, pc |-> "objective", k |-> 1, before |-> frames,
                 objective |-> Exp_Number(0), conditions |-> <<>>, evaluated |-> <<>>,
                 res |-> TOk(frames, <<>>)]
    /\ last = Idle /\ exp = Idle /\ out = Idle /\ calls = Idle

TransformObjective ==
    /\ run.pc = "objective"
    /\ \E r \in {transform_objective(run.problem.objective, frames)} :
          /\ frames' = r.frames
          /\ run' = IF r.ok
                    THEN [run EXCEPT !.pc = "conditions", !.objective = r.out,
                                     !.evaluated = Append(@, 0)]
                    ELSE [run EXCEPT !.pc = "done", !.res = r, !.evaluated = Append(@, 0)]
    /\ UNCHANGED <<last, exp, out, calls>>

\* Mutant: a failing condition is skipped and the loop goes on.
TransformNextCondition_skips ==
    /\ run.pc = "conditions"
    /\ run.k <= Len(run.problem.conditions)
    /\ \E r \in {transform_condition_with_iteration(run.problem.conditions[run.k], frames)} :
          /\ frames' = r.frames
          /\ run' = [run EXCEPT !.k = @ + 1, !.conditions = @ \o r.out,
                                !.evaluated = Append(@, run.k)]
    /\ UNCHANGED <<last, exp, out, calls>>

TransformNextCondition ==
    /\ run.pc = "conditions"
    /\ run.k <= Len(run.problem.conditions)
    /\ \E r \in {transform_condition_with_iteration(run.problem.conditions[run.k], frames)} :
          /\ frames' = r.frames
          /\ run' = IF r.ok
                    THEN [run EXCEPT !.k = @ + 1, !.conditions = @ \o r.out,
                                     !.evaluated = Append(@, run.k)]
                    ELSE [run EXCEPT !.pc = "done", !.res = r, !.evaluated = Append(@, run.k)]
    /\ UNCHANGED <<last, exp, out, calls>>

ReturnProblem ==
    /\ run.pc = "conditions"
    /\ run.k > Len(run.problem.conditions)
    /\ run' = [run EXCEPT !.pc = "done",
                          !.res = TOk(frames, Problem_new(run.objective, run.conditions))]
    /\ UNCHANGED <<frames, last, exp, out, calls>>

NextLoop == TransformObjective \/ TransformNextCondition \/ ReturnProblem

SpecLoop == InitLoop /\ [][NextLoop]_vars

\* What each part of the problem transforms to on its own, in the context the
\* call started from.
ObjectiveAlone == transform_objective(run.problem.objective, run.before)

ConditionAlone(k) == transform_condition_with_iteration(run.problem.conditions[k], run.before)

RECURSIVE ExpansionsUpTo(_)
ExpansionsUpTo(k) == IF k = 0 THEN <<>> ELSE ExpansionsUpTo(k - 1) \o ConditionAlone(k).out

SameError(r, e) == ~r.ok /\ r.err = e.err /\ r.name = e.name /\ r.spans = e.spans /\ r.out = <<>>

\* C15: the objective is evaluated first and then the conditions in source
\* order, the expansions of condition i coming before those of condition i+1;
\* the first failure is the error returned, with no Problem, and nothing after
\* it is evaluated.
C15_FirstError ==
    run.pc = "done" =>
        LET n == Len(run.problem.conditions)
            failing == {k \in 1..n : ~ConditionAlone(k).ok}
        IN  IF ~ObjectiveAlone.ok
            THEN SameError(run.res, ObjectiveAlone) /\ run.evaluated = <<0>>
            ELSE IF failing # {}
            THEN LET first == CHOOSE k \in failing : \A m \in failing : k <= m
                 IN  /\ SameError(run.res, ConditionAlone(first))
                     /\ run.evaluated = <<0>> \o [k \in 1..first |-> k]
            ELSE /\ run.res.ok
                 /\ run.res.out = Problem_new(ObjectiveAlone.out, ExpansionsUpTo(n))
                 /\ run.evaluated = <<0>> \o [k \in 1..n |-> k]

\* The first of two conditions fails under an iteration scope: the second is
\* not evaluated.
C15_Witness ==
    /\ run.pc = "done"
    /\ ~run.res.ok
    /\ Len(run.problem.conditions) = 2
    /\ run.evaluated = <<0, 1>>
    /\ run.res.spans = 1

\* Two conditions with two expansions each are returned in source order.
C15_WitnessOrder ==
    /\ run.pc = "done"
    /\ run.res.ok
    /\ Len(run.problem.conditions) = 2
    /\ Len(run.res.out.conditions) = 4
    /\ run.res.out.conditions[1].lhs # run.res.out.conditions[4].lhs

(***************************************************************************)
(* TransformError values with their SpannedError wraps, get_trace and      *)
(* get_traced_error. A span is its start line and start column; the        *)
(* context of a wrap is "" for None.                                       *)
(***************************************************************************)
MissingVariable(name) == [t |-> "MissingVariable", name |-> name]
Other(name) == [t |-> "Other", name |-> name]
SpannedError(error, span, context) ==
    [t |-> "SpannedError", error |-> error, span |-> span, context |-> context]

InputSpan(start_line, start_column) == [start_line |-> start_line, start_column |-> start_column]

TransformError_to_spanned_error(self, span) == SpannedError(self, span, "")

\* Display of TransformError.
RECURSIVE TransformError_to_string(_)
TransformError_to_string(self) ==
    CASE self.t = "MissingVariable" -> "[Missing variable] " \o self.name
      [] self.t = "Other" -> self.name
      [] self.t = "SpannedError" -> TransformError_to_string(self.error)

Reverse(s) == [k \in 1..Len(s) |-> s[Len(s) + 1 - k]]

\* Mutant: a span that is anywhere in the trace so far is not added again.
RECURSIVE get_trace_loop_drops_seen(_, _)
get_trace_loop_drops_seen(last_error, trace) ==
    IF last_error.t # "SpannedError" THEN trace
    ELSE IF \E k \in 1..Len(trace) : trace[k].span = last_error.span
    THEN get_trace_loop_drops_seen(last_error.error, trace)
    ELSE get_trace_loop_drops_seen(last_error.error,
                                   Append(trace, [span |-> last_error.span,
                                                  context |-> last_error.context]))

\* The while let of get_trace: last_error is the error under the wrap looked at
\* last.
RECURSIVE get_trace_loop(_, _)
get_trace_loop(last_error, trace) ==
    IF last_error.t # "SpannedError" THEN trace
    ELSE IF trace[Len(trace)].span = last_error.span
    THEN get_trace_loop(last_error.error, trace)
    ELSE get_trace_loop(last_error.error,
                        Append(trace, [span |-> last_error.span,
                                       context |-> last_error.context]))

get_trace(self) ==
    IF self.t = "SpannedError"
    THEN Reverse(get_trace_loop(self.error, <<[span |-> self.span, context |-> self.context]>>))
    ELSE <<>>

trace_line(entry) ==
    "\tat " \o to_string(entry.span.start_line) \o ":" \o to_string(entry.span.start_column)
    \o (IF entry.context # "" THEN " (" \o entry.context \o ")" ELSE "")

get_traced_error(self) ==
    With(get_trace(self), LAMBDA trace :
        TransformError_to_string(self) \o "\n"
        \o join([k \in 1..Len(trace) |-> trace_line(trace[k])], "\n"))

(***************************************************************************)
(* SpecTrace: an error is wrapped by to_spanned_error any number of times  *)
(* and then printed. run.spans lists the spans of the wraps in the order   *)
(* they were applied.                                                      *)
(***************************************************************************)
MaxWraps == 4

Spans == {InputSpan(1, 2), InputSpan(3, 1), InputSpan(12, 5)}

BaseErrors == {MissingVariable("i"), Other("Missing frame to pop")}

InitTrace ==
    /\ \E e \in BaseErrors :
          run = [error |-> e, base |-> e, spans |-> <<>>, done |-> FALSE, trace |-> <<>>,
                 text |-> ""]
    /\ frames = <<Frame_new>>
    /\ last = Idle /\ exp = Idle /\ out = Idle /\ calls = Idle

ToSpannedError ==
    /\ ~run.done
    /\ Len(run.spans) < MaxWraps
    /\ \E span \in Spans :
          run' = [run EXCEPT !.error = TransformError_to_spanned_error(@, span),
                             !.spans = Append(@, span)]
    /\ UNCHANGED <<frames, last, exp, out, calls>>

GetTracedError ==
    /\ ~run.done
    /\ run' = [run EXCEPT !.done = TRUE, !.trace = get_trace(run.error),
                          !.text = get_traced_error(run.error)]
    /\ UNCHANGED <<frames, last, exp, out, calls>>

NextTrace == ToSpannedError \/ GetTracedError

SpecTrace == InitTrace /\ [][NextTrace]_vars

\* The line the claim expects for a span.
AtLine(span) == "\tat " \o ToString(span.start_line) \o ":" \o ToString(span.start_column)

RECURSIVE Lines(_)
Lines(spans) ==
    IF Len(spans) = 0 THEN ""
    ELSE IF Len(spans) = 1 THEN AtLine(spans[1])
    ELSE AtLine(spans[1]) \o "\n" \o Lines(Tail(spans))

PairwiseDifferent(spans) ==
    \A k \in 1..Len(spans), m \in 1..Len(spans) : k # m => spans[k] # spans[m]

\* C16: for wraps with pairwise different spans, the innermost message is
\* followed by one line per wrap, outermost first: the wrap applied last comes
\* first.
C16_OutermostFirst ==
    (run.done /\ Len(run.spans) >= 1 /\ PairwiseDifferent(run.spans))
    => run.text = TransformError_to_string(run.base) \o "\n" \o Lines(Reverse(run.spans))

\* One span for each maximal run of equal consecutive spans.
RECURSIVE Collapse(_)
Collapse(spans) ==
    IF Len(spans) <= 1 THEN spans
    ELSE IF spans[1] = spans[2] THEN Collapse(Tail(spans))
    ELSE <<spans[1]>> \o Collapse(Tail(spans))

\* C17: get_trace is empty for an error that is not a SpannedError; for a chain
\* of n wraps it has one entry per maximal run of consecutive wraps with equal
\* spans: no two adjacent entries have equal spans, there are at most n
\* entries, and equal spans that are not adjacent in the chain are all kept.
C17_GetTrace ==
    run.done =>
        /\ Len(run.spans) = 0 => run.trace = <<>>
        /\ Len(run.trace) <= Len(run.spans)
        /\ [k \in 1..Len(run.trace) |-> run.trace[k].span] = Collapse(run.spans)
        /\ \A k \in 1..(Len(run.trace) - 1) : run.trace[k].span # run.trace[k + 1].span

\* Two adjacent wraps with the same span and a later wrap with that span again.
C17_Witness ==
    /\ run.done
    /\ run.spans = <<InputSpan(1, 2), InputSpan(1, 2), InputSpan(3, 1), InputSpan(1, 2)>>
    /\ Len(run.trace) = 3

(***************************************************************************)
(* Graphs (consts.rs). The edges of a node are a HashMap keyed by the      *)
(* target of the edge: the model keeps its values, a set of edges with     *)
(* pairwise different targets. A Vec whose order comes from a HashMap is   *)
(* modelled as the set of its elements.                                    *)
(***************************************************************************)
GraphEdge_new(from, to, weight) == [from |-> from, to |-> to, weight |-> weight]

\* collect::<HashMap<_, _>> keeps, for each key, the last edge inserted.
GraphNode_new(name, edges) ==
    [name |-> name,
     edges |-> {edges[k] : k \in {k \in 1..Len(edges) :
                                    \A m \in (k + 1)..Len(edges) : edges[m].to # edges[k].to}}]

Graph_new(vertices) == [vertices |-> vertices]

Graph_edges(self) == UNION {self.vertices[k].edges : k \in 1..Len(self.vertices)}

NOk(edges) == [ok |-> TRUE, err |-> "", edges |-> edges]
NErr(kind) == [ok |-> FALSE, err |-> kind, edges |-> {}]

\* Iterator::find returns the first node of that name.
neighbour_of(self, node_name) ==
    IF \A k \in 1..Len(self.vertices) : self.vertices[k].name # node_name
    THEN NErr("NotFound")
    ELSE NOk(self.vertices[CHOOSE k \in 1..Len(self.vertices) :
                              /\ self.vertices[k].name = node_name
                              /\ \A m \in 1..(k - 1) : self.vertices[m].name # node_name].edges)

(***************************************************************************)
(* SpecGraph: a graph is built with GraphNode::new and Graph::new and the  *)
(* neighbours of a node name are looked up.                                *)
(***************************************************************************)
MaxVertices == 2

NodeNames == {"a", "b"}

GraphEdges == {GraphEdge_new(from, to, 0) : from \in NodeNames, to \in NodeNames}

GraphNodes == {GraphNode_new(name, edges) : name \in NodeNames, edges \in Vectors(GraphEdges)}

Graphs == {Graph_new(vertices) : vertices \in UNION {[1..n -> GraphNodes] : n \in 0..MaxVertices}}

InitGraph ==
    /\ \E graph \in Graphs :
          run = [graph |-> graph, node_name |-> "", done |-> FALSE, res |-> NErr("")]
    /\ frames = <<Frame_new>>
    /\ last = Idle /\ exp = Idle /\ out = Idle /\ calls = Idle

NeighbourOf ==
    /\ ~run.done
    /\ \E node_name \in NodeNames :
          run' = [run EXCEPT !.done = TRUE, !.node_name = node_name,
                             !.res = neighbour_of(run.graph, node_name)]
    /\ UNCHANGED <<frames, last, exp, out, calls>>

NextGraph == NeighbourOf

SpecGraph == InitGraph /\ [][NextGraph]_vars

\* C18: for every graph G, however built, and every node name u of G, the
\* edges the neighbour lookup of u returns are a subset of edges(G) and every
\* one of them has from = u.
C18_NeighboursFromNode ==
    (run.done /\ \E k \in 1..Len(run.graph.vertices) : run.graph.vertices[k].name = run.node_name)
    => /\ run.res.ok
       /\ run.res.edges \subseteq Graph_edges(run.graph)
       /\ \A e \in run.res.edges : e.from = run.node_name

(***************************************************************************)
(* solve_real_lp_problem_clarabel (solvers/clarabel_real.rs). Numbers are  *)
(* integers. The backend is outside the program: what model.solve()        *)
(* returns is an argument, solution, and the result records whether the    *)
(* backend was invoked.                                                    *)
(***************************************************************************)
LinearConstraint_new(coefficients, constraint_type, rhs) ==
    [coefficients |-> coefficients, constraint_type |-> constraint_type, rhs |-> rhs]

\* The model with the per-variable domain get_domain returns, in the order of
\* the variables.
LinearModel_new(objective, optimization_type, objective_offset, constraints, variables, domain) ==
    [objective |-> objective, optimization_type |-> optimization_type,
     objective_offset |-> objective_offset, constraints |-> constraints,
     variables |-> variables, domain |-> domain]

\* The variables of the domain that the validator rejects, in domain order.
find_invalid_variables(domain, validator(_)) ==
    SelectSeq(domain, LAMBDA var : ~validator(var.type))

SolverErr(kind, got, invoked) ==
    [ok |-> FALSE, err |-> kind, got |-> got, assignments |-> <<>>, value |-> 0,
     invoked |-> invoked]

Assignment(name, value) == [name |-> name, value |-> value]

LpSolution_new(assignments, value) ==
    [ok |-> TRUE, err |-> "", got |-> <<>>, assignments |-> assignments, value |-> value,
     invoked |-> TRUE]

\* The fold over the assignments, from acc on.
RECURSIVE fold_value(_, _, _, _)
fold_value(acc, assignments, coeffs, i) ==
    IF i > Len(assignments) THEN acc
    ELSE fold_value(acc + assignments[i].value * coeffs[i], assignments, coeffs, i + 1)

\* The match on the solution of the backend.
on_solution(lp, solution) ==
    IF solution.ok
    THEN With([i \in 1..Len(lp.variables) |-> Assignment(lp.variables[i], solution.values[i])],
              LAMBDA assignments :
                  LpSolution_new(assignments,
                                 fold_value(lp.objective_offset, assignments, lp.objective, 1)
                                 + lp.objective_offset))
    ELSE CASE solution.err = "Unbounded" -> SolverErr("Unbounded", <<>>, TRUE)
           [] solution.err = "Infeasible" -> SolverErr("Infisible", <<>>, TRUE)
           [] OTHER -> SolverErr("Other", <<>>, TRUE)

\* From the construction of the variables on: the constraints are converted,
\* the first one with another comparison ending the call, and the backend is
\* run.
build_and_solve(lp, solution) ==
    IF \E k \in 1..Len(lp.constraints) :
           lp.constraints[k].constraint_type \notin {"LessOrEqual", "GreaterOrEqual", "Equal"}
    THEN SolverErr("UnavailableComparison", <<>>, FALSE)
    ELSE on_solution(lp, solution)

IsReal(type) == type \in {"Real", "NonNegativeReal"}

\* Mutant: the direction is checked before the domain.
solve_real_lp_problem_clarabel_direction_first(lp, solution) ==
    IF lp.optimization_type = "Satisfy"
    THEN SolverErr("UnimplementedOptimizationType", <<>>, FALSE)
    ELSE IF Len(find_invalid_variables(lp.domain, IsReal)) # 0
    THEN SolverErr("InvalidDomain", find_invalid_variables(lp.domain, IsReal), FALSE)
    ELSE build_and_solve(lp, solution)

solve_real_lp_problem_clarabel(lp, solution) ==
    With(find_invalid_variables(lp.domain, IsReal), LAMBDA invalid_variables :
        IF Len(invalid_variables) # 0
        THEN SolverErr("InvalidDomain", invalid_variables, FALSE)
        ELSE IF lp.optimization_type = "Satisfy"
        THEN SolverErr("UnimplementedOptimizationType", <<>>, FALSE)
        ELSE build_and_solve(lp, solution))

(***************************************************************************)
(* SpecSolve: solve_real_lp_problem_clarabel on a linear model, for every  *)
(* answer of the backend.                                                  *)
(***************************************************************************)
MaxVars == 2

VariableTypes == {"Real", "NonNegativeReal", "Integer", "Boolean"}

OptimizationTypes == {"Min", "Max", "Satisfy"}

Coefficients == {-1, 2}

Offsets == {0, 3}

VarName(i) == "x" \o to_string(i)

ConstraintLists(n) ==
    {<<>>, <<LinearConstraint_new([i \in 1..n |-> 1], "LessOrEqual", 4)>>,
     <<LinearConstraint_new([i \in 1..n |-> 1], "Less", 4)>>}

LinearModels ==
    UNION {{LinearModel_new(objective, optimization_type, objective_offset, constraints,
                            [i \in 1..n |-> VarName(i)],
                            [i \in 1..n |-> [name |-> VarName(i), type |-> types[i]]]) :
               objective \in [1..n -> Coefficients], optimization_type \in OptimizationTypes,
               objective_offset \in Offsets, constraints \in ConstraintLists(n),
               types \in [1..n -> VariableTypes]} : n \in 1..MaxVars}

\* What the backend may answer for a model of n variables.
Solutions(n) ==
    {[ok |-> TRUE, err |-> "", values |-> values] : values \in [1..n -> {0, 5}]}
    \cup {[ok |-> FALSE, err |-> e, values |-> <<>>] : e \in {"Unbounded", "Infeasible", "Other"}}

InitSolve ==
    /\ \E lp \in LinearModels : run = [lp |-> lp, done |-> FALSE, res |-> SolverErr("", <<>>, FALSE)]
    /\ frames = <<Frame_new>>
    /\ last = Idle /\ exp = Idle /\ out = Idle /\ calls = Idle

SolveRealLpProblemClarabel ==
    /\ ~run.done
    /\ \E solution \in Solutions(Len(run.lp.variables)) :
          run' = [run EXCEPT !.done = TRUE,
                             !.res = solve_real_lp_problem_clarabel(run.lp, solution)]
    /\ UNCHANGED <<frames, last, exp, out, calls>>

NextSolve == SolveRealLpProblemClarabel

SpecSolve == InitSolve /\ [][NextSolve]_vars

\* The variables of the model whose domain the solver does not handle.
NotReal(lp) == {i \in 1..Len(lp.domain) : lp.domain[i].type \notin {"Real", "NonNegativeReal"}}

\* C19: InvalidDomain is returned exactly when a variable has a domain other
\* than Real or NonNegativeReal, got lists exactly those variables, and this
\* comes before the direction check; with valid variables and direction
\* Satisfy the result is UnimplementedOptimizationType; in both cases the
\* backend is not invoked.
C19_DomainThenDirection ==
    run.done =>
        /\ run.res.err = "InvalidDomain" <=> NotReal(run.lp) # {}
        /\ run.res.err = "InvalidDomain"
           => /\ {run.res.got[k] : k \in 1..Len(run.res.got)}
                 = {run.lp.domain[i] : i \in NotReal(run.lp)}
              /\ Len(run.res.got) = Cardinality(NotReal(run.lp))
              /\ ~run.res.invoked
        /\ (NotReal(run.lp) = {} /\ run.lp.optimization_type = "Satisfy")
           => run.res.err = "UnimplementedOptimizationType" /\ ~run.res.invoked

\* A Satisfy model with one variable of two outside the real domains.
C19_Witness ==
    /\ run.done
    /\ run.lp.optimization_type = "Satisfy"
    /\ Len(run.lp.variables) = 2
    /\ Cardinality(NotReal(run.lp)) = 1
    /\ run.res.err = "InvalidDomain"

RECURSIVE ObjectiveAt(_, _, _)
ObjectiveAt(objective, assignments, i) ==
    IF i = 0 THEN 0
    ELSE ObjectiveAt(objective, assignments, i - 1) + objective[i] * assignments[i].value

\* C20: on success the value returned is the objective at the returned
\* assignment, objective_offset + sum of objective[i] * assignments[i].value,
\* with one assignment per variable in the order of the variable vector.
C20_ObjectiveValue ==
    (run.done /\ run.res.ok)
    => /\ Len(run.res.assignments) = Len(run.lp.variables)
       /\ \A i \in 1..Len(run.lp.variables) : run.res.assignments[i].name = run.lp.variables[i]
       /\ run.res.value = run.lp.objective_offset
                          + ObjectiveAt(run.lp.objective, run.res.assignments,
                                        Len(run.lp.variables))

(***************************************************************************)
(* LinearConstraint::ensure_size: Vec::resize(size, 0.0) on the            *)
(* coefficients.  resize extends a shorter vector with the given value and *)
(* truncates a longer one.                                                 *)
(***************************************************************************)
resize(v, size, value) ==
    [i \in 1..size |-> IF i <= Len(v) THEN v[i] ELSE value]

ensure_size_pads_one(constraint, size) ==
    [constraint EXCEPT !.coefficients = resize(constraint.coefficients, size, 1)]

ensure_size(constraint, size) ==
    [constraint EXCEPT !.coefficients = resize(constraint.coefficients, size, 0)]

(***************************************************************************)
(* SpecEnsure: ensure_size(n) on a constraint, for every n and every       *)
(* initial length of the coefficient vector up to MaxCoefficients.         *)
(***************************************************************************)
MaxCoefficients == 3

Comparisons == {"LessOrEqual", "GreaterOrEqual", "Equal"}

LinearConstraints ==
    UNION {{LinearConstraint_new(coefficients, constraint_type, rhs) :
               coefficients \in [1..n -> Coefficients], constraint_type \in Comparisons,
               rhs \in {-1, 4}} : n \in 0..MaxCoefficients}

InitEnsure ==
    /\ \E constraint \in LinearConstraints, size \in 0..(MaxCoefficients + 1) :
          run = [before |-> constraint, size |-> size, done |-> FALSE, constraint |-> constraint]
    /\ frames = <<Frame_new>>
    /\ last = Idle /\ exp = Idle /\ out = Idle /\ calls = Idle

EnsureSize ==
    /\ ~run.done
    /\ run' = [run EXCEPT !.done = TRUE, !.constraint = ensure_size(run.constraint, run.size)]
    /\ UNCHANGED <<frames, last, exp, out, calls>>

NextEnsure == EnsureSize

SpecEnsure == InitEnsure /\ [][NextEnsure]_vars

\* C21: ensure_size(n) makes the coefficient vector exactly n long, every
\* coefficient the constraint had stays at its index and none is discarded,
\* every added entry is 0, and the right-hand side and the comparison are
\* unchanged, for every n and every initial length.
C21_EnsureSize ==
    run.done =>
        /\ Len(run.constraint.coefficients) = run.size
        /\ \A i \in 1..Len(run.before.coefficients) :
              /\ i <= Len(run.constraint.coefficients)
              /\ run.constraint.coefficients[i] = run.before.coefficients[i]
        /\ \A i \in (Len(run.before.coefficients) + 1)..Len(run.constraint.coefficients) :
              run.constraint.coefficients[i] = 0
        /\ run.constraint.rhs = run.before.rhs
        /\ run.constraint.constraint_type = run.before.constraint_type

(***************************************************************************)
(* LinearModel::into_standard_form (to_standard_form): the four steps of   *)
(* the linear standardization.  The auxiliary variables of a constraint    *)
(* are appended after the variables that exist when it is reached, so each *)
(* row is first brought to that length with ensure_size.                   *)
(***************************************************************************)
EqualityConstraint_new(coefficients, rhs) ==
    [coefficients |-> coefficients, rhs |-> rhs]

negate(v) == [i \in 1..Len(v) |-> 0 - v[i]]

flip(constraint_type) ==
    CASE constraint_type = "LessOrEqual" -> "GreaterOrEqual"
      [] constraint_type = "GreaterOrEqual" -> "LessOrEqual"
      [] OTHER -> constraint_type

\* Step 3: a negative right-hand side multiplies the row by -1 and flips the
\* comparison.
normalize_sign(constraint) ==
    IF constraint.rhs < 0
    THEN LinearConstraint_new(negate(constraint.coefficients),
                              flip(constraint.constraint_type), 0 - constraint.rhs)
    ELSE constraint

\* Step 4 for the constraint of index i: the coefficients and the names of
\* the auxiliary variables it introduces.
auxiliaries(constraint_type, i) ==
    CASE constraint_type = "LessOrEqual" ->
            <<[coefficient |-> 1, name |-> "s" \o to_string(i), kind |-> "slack"]>>
      [] constraint_type = "GreaterOrEqual" ->
            <<[coefficient |-> 0 - 1, name |-> "r" \o to_string(i), kind |-> "surplus"],
              [coefficient |-> 1, name |-> "a" \o to_string(i), kind |-> "artificial"]>>
      [] OTHER ->
            <<[coefficient |-> 1, name |-> "a" \o to_string(i), kind |-> "artificial"]>>

\* Steps 2 to 4 for one constraint, given the standard form built so far.
normalize_constraint(acc, constraint, i, size) ==
    With(normalize_sign(ensure_size(constraint, size)), LAMBDA c :
    With(auxiliaries(c.constraint_type, i), LAMBDA aux :
        [constraints |->
             Append(acc.constraints,
                    EqualityConstraint_new(
                        ensure_size(c, Len(acc.variables)).coefficients
                            \o [k \in 1..Len(aux) |-> aux[k].coefficient],
                        c.rhs)),
         variables |-> acc.variables \o [k \in 1..Len(aux) |-> aux[k].name],
         kinds |-> acc.kinds \o [k \in 1..Len(aux) |-> aux[k].kind]]))

RECURSIVE normalize_constraints(_, _, _, _)
normalize_constraints(acc, constraints, i, size) ==
    IF i > Len(constraints) THEN acc
    ELSE normalize_constraints(normalize_constraint(acc, constraints[i], i, size),
                               constraints, i + 1, size)

\* The standard form: Min direction (flip_objective remembers a Max), the
\* equality constraints all of the final length, the variables with the
\* auxiliaries appended, and a zero objective coefficient for each auxiliary.
to_standard_form(lp) ==
    With(normalize_constraints([constraints |-> <<>>, variables |-> lp.variables, kinds |-> <<>>],
                               lp.constraints, 1, Len(lp.variables)),
         LAMBDA acc :
        [objective |->
             resize(IF lp.optimization_type = "Max" THEN negate(lp.objective) ELSE lp.objective,
                    Len(acc.variables), 0),
         constraints |->
             [r \in 1..Len(acc.constraints) |->
                 ensure_size(acc.constraints[r], Len(acc.variables))],
         variables |-> acc.variables,
         kinds |-> acc.kinds,
         objective_offset |-> lp.objective_offset,
         flip_objective |-> lp.optimization_type = "Max"])

into_standard_form(lp) == to_standard_form(lp)

(***************************************************************************)
(* SpecStandard: into_standard_form on a linear model, for every           *)
(* comparison, right-hand sides of either sign and of value 0, and         *)
(* coefficient vectors shorter than the variable vector.                   *)
(***************************************************************************)
MaxConstraints == 2

StandardConstraints(n) ==
    {LinearConstraint_new(coefficients, constraint_type, rhs) :
        coefficients \in {<<>>, [i \in 1..n |-> 2]},
        constraint_type \in Comparisons, rhs \in {0 - 1, 0, 4}}

StandardConstraintLists(n) ==
    UNION {[1..m -> StandardConstraints(n)] : m \in 0..MaxConstraints}

StandardModels(n) ==
    {LinearModel_new([i \in 1..n |-> c], optimization_type, 0, constraints,
                     [i \in 1..n |-> VarName(i)],
                     [i \in 1..n |-> [name |-> VarName(i), type |-> "NonNegativeReal"]]) :
        c \in Coefficients, optimization_type \in {"Min", "Max"},
        constraints \in StandardConstraintLists(n)}

InitStandard ==
    /\ \E n \in 1..MaxVars : \E lp \in StandardModels(n) :
          run = [lp |-> lp, done |-> FALSE, res |-> Idle]
    /\ frames = <<Frame_new>>
    /\ last = Idle /\ exp = Idle /\ out = Idle /\ calls = Idle

IntoStandardForm ==
    /\ ~run.done
    /\ run' = [run EXCEPT !.done = TRUE, !.res = into_standard_form(run.lp)]
    /\ UNCHANGED <<frames, last, exp, out, calls>>

NextStandard == IntoStandardForm

SpecStandard == InitStandard /\ [][NextStandard]_vars

\* The rows of the standard form in which column j is not zero.
RowsOf(standard, j) ==
    {r \in 1..Len(standard.constraints) : standard.constraints[r].coefficients[j] # 0}

\* The columns of the auxiliary variables of the standard form of lp.
Auxiliaries(lp, standard) == (Len(lp.variables) + 1)..Len(standard.variables)

KindOf(lp, standard, j) == standard.kinds[j - Len(lp.variables)]

\* Every row has one coefficient per variable and a non-negative right-hand
\* side, and every auxiliary variable is in exactly one row.
EqualitiesOverAllVariables(lp, standard) ==
    /\ Len(standard.constraints) = Len(lp.constraints)
    /\ \A r \in 1..Len(standard.constraints) :
          /\ DOMAIN standard.constraints[r] = {"coefficients", "rhs"}
          /\ Len(standard.constraints[r].coefficients) = Len(standard.variables)
          /\ standard.constraints[r].rhs >= 0
    /\ \A j \in Auxiliaries(lp, standard) : Cardinality(RowsOf(standard, j)) = 1

RECURSIVE gcd(_, _)
gcd(a, b) == IF b = 0 THEN a ELSE gcd(b, a % b)

abs(n) == IF n < 0 THEN 0 - n ELSE n

Fraction(n, d) ==
    With(gcd(abs(n), abs(d)), LAMBDA g :
        IF d < 0 THEN <<(0 - n) \div g, (0 - d) \div g>> ELSE <<n \div g, d \div g>>)

Whole(n) == <<n, 1>>

add(x, y) == Fraction(x[1] * y[2] + y[1] * x[2], x[2] * y[2])

sub(x, y) == Fraction(x[1] * y[2] - y[1] * x[2], x[2] * y[2])

mul(x, y) == Fraction(x[1] * y[1], x[2] * y[2])

div(x, y) == Fraction(x[1] * y[2], x[2] * y[1])

less(x, y) == x[1] * y[2] < y[1] * x[2]

\* A cost m * M + c, where M is larger than every number: costs compare by
\* the M part first.
Cost(m, c) == [m |-> m, c |-> c]

cost_less(x, y) == less(x.m, y.m) \/ (x.m = y.m /\ less(x.c, y.c))

\* x - k * y for the costs x and k and the number y.
cost_sub(x, k, y) == Cost(sub(x.m, mul(k.m, y)), sub(x.c, mul(k.c, y)))

cost_add(x, k, y) == Cost(add(x.m, mul(k.m, y)), add(x.c, mul(k.c, y)))

(***************************************************************************)
(* The tableau of the simplex engine and its canonical form: the basis of  *)
(* a row is the auxiliary variable last introduced for it, an artificial   *)
(* variable costs M, and the objective row holds the reduced costs.        *)
(***************************************************************************)
Tableau_new(c, a, b, in_basis, current_value, value_offset, variables) ==
    [c |-> c, a |-> a, b |-> b, in_basis |-> in_basis, current_value |-> current_value,
     value_offset |-> value_offset, variables |-> variables]

\* The column of the auxiliary variable last introduced for row r, 0 if none.
basis_of(standard, originals, r) ==
    With({j \in (originals + 1)..Len(standard.variables) :
             standard.constraints[r].coefficients[j] = 1},
         LAMBDA columns :
            IF columns = {} THEN 0
            ELSE CHOOSE j \in columns : \A k \in columns : k <= j)

is_artificial(standard, originals, j) ==
    j > originals /\ standard.kinds[j - originals] = "artificial"

\* The objective row and the value after the basic columns of rows 1..r are
\* eliminated from the objective row.
RECURSIVE price_out(_, _, _, _, _, _)
price_out(c, value, a, b, in_basis, r) ==
    IF r = 0 THEN [c |-> c, value |-> value]
    ELSE With(price_out(c, value, a, b, in_basis, r - 1), LAMBDA done :
         With(c[in_basis[r]], LAMBDA k :
            [c |-> [j \in 1..Len(c) |-> cost_sub(done.c[j], k, a[r][j])],
             value |-> cost_add(done.value, k, b[r])]))

into_canonical(standard, originals) ==
    With([r \in 1..Len(standard.constraints) |-> basis_of(standard, originals, r)],
         LAMBDA in_basis :
    With([r \in 1..Len(standard.constraints) |->
             [j \in 1..Len(standard.variables) |->
                 Whole(standard.constraints[r].coefficients[j])]], LAMBDA a :
    With([r \in 1..Len(standard.constraints) |-> Whole(standard.constraints[r].rhs)],
         LAMBDA b :
    With([j \in 1..Len(standard.variables) |->
             Cost(IF is_artificial(standard, originals, j) THEN Whole(1) ELSE Whole(0),
                  Whole(standard.objective[j]))], LAMBDA c :
        IF \E r \in 1..Len(in_basis) : in_basis[r] = 0
        THEN [ok |-> FALSE, tableau |-> Idle]
        ELSE With(price_out(c, Cost(Whole(0), Whole(0)), a, b, in_basis, Len(in_basis)),
                  LAMBDA priced :
                 [ok |-> TRUE,
                  tableau |-> Tableau_new(priced.c, a, b, in_basis, priced.value,
                                          Whole(standard.objective_offset),
                                          standard.variables)])))))

(***************************************************************************)
(* One iteration of the simplex engine (spec section 4.6, steps 1 to 6)    *)
(* and the terminal results.                                               *)
(***************************************************************************)
NoCost == Cost(Whole(0), Whole(0))

\* Steps 2 and 3: the columns of strictly negative reduced cost, and among
\* them the most negative one, the lowest column on a tie.
negative_columns(tableau) ==
    {j \in 1..Len(tableau.c) : cost_less(tableau.c[j], NoCost)}

entering(tableau) ==
    CHOOSE j \in negative_columns(tableau) :
        \A k \in negative_columns(tableau) :
            cost_less(tableau.c[j], tableau.c[k]) \/ (tableau.c[j] = tableau.c[k] /\ j <= k)

\* Step 4: the rows with a strictly positive entry in the entering column.
ratio_rows(tableau, e) ==
    {r \in 1..Len(tableau.a) : less(Whole(0), tableau.a[r][e])}

ratio(tableau, r, e) == div(tableau.b[r], tableau.a[r][e])

\* Steps 4 and 5: the row of least ratio, of lowest basis index on a tie.
leaving(tableau, e) ==
    CHOOSE r \in ratio_rows(tableau, e) :
        \A q \in ratio_rows(tableau, e) :
            \/ less(ratio(tableau, r, e), ratio(tableau, q, e))
            \/ /\ ratio(tableau, r, e) = ratio(tableau, q, e)
               /\ tableau.in_basis[r] <= tableau.in_basis[q]

\* Step 6: scale the pivot row, eliminate the entering column from the other
\* rows and from the objective row, update the basis and the value.
pivot(tableau, l, e) ==
    With([j \in 1..Len(tableau.c) |-> div(tableau.a[l][j], tableau.a[l][e])], LAMBDA row :
    With(div(tableau.b[l], tableau.a[l][e]), LAMBDA rhs :
        [tableau EXCEPT
            !.a = [r \in 1..Len(tableau.a) |->
                      IF r = l THEN row
                      ELSE [j \in 1..Len(tableau.c) |->
                               sub(tableau.a[r][j], mul(tableau.a[r][e], row[j]))]],
            !.b = [r \in 1..Len(tableau.b) |->
                      IF r = l THEN rhs ELSE sub(tableau.b[r], mul(tableau.a[r][e], rhs))],
            !.c = [j \in 1..Len(tableau.c) |-> cost_sub(tableau.c[j], tableau.c[e], row[j])],
            !.current_value = cost_add(tableau.current_value, tableau.c[e], rhs),
            !.in_basis = [tableau.in_basis EXCEPT ![l] = e]]))

\* The value of every variable at the basis of the tableau.
get_variables_values(tableau) ==
    [j \in 1..Len(tableau.c) |->
        IF \E r \in 1..Len(tableau.in_basis) : tableau.in_basis[r] = j
        THEN tableau.b[CHOOSE r \in 1..Len(tableau.in_basis) : tableau.in_basis[r] = j]
        ELSE Whole(0)]

SimplexError(kind) == [kind |-> kind, values |-> <<>>, value |-> Whole(0)]

\* The terminal result at an optimal basis: Infeasible when an artificial
\* variable is basic with a non-zero value, else Optimal with the values of
\* the variables and the value of the objective (its sign flipped back for a
\* Max model).
optimal_result(tableau, standard, originals) ==
    IF \E r \in 1..Len(tableau.in_basis) :
          /\ is_artificial(standard, originals, tableau.in_basis[r])
          /\ tableau.b[r] # Whole(0)
    THEN SimplexError("Infeasible")
    ELSE [kind |-> "Optimal",
          values |-> get_variables_values(tableau),
          value |-> add(tableau.value_offset,
                        IF standard.flip_objective
                        THEN sub(Whole(0), tableau.current_value.c)
                        ELSE tableau.current_value.c)]

\* One turn of the loop of solve(limit): the state after it, with the result
\* when the loop ends there.
solve_step(tableau, iterations, limit, standard, originals) ==
    IF negative_columns(tableau) = {}
    THEN [tableau |-> tableau, iterations |-> iterations,
          res |-> optimal_result(tableau, standard, originals)]
    ELSE IF iterations >= limit
    THEN [tableau |-> tableau, iterations |-> iterations,
          res |-> SimplexError("IterationLimitExceeded")]
    ELSE With(entering(tableau), LAMBDA e :
            IF ratio_rows(tableau, e) = {}
            THEN [tableau |-> tableau, iterations |-> iterations,
                  res |-> SimplexError("Unbounded")]
            ELSE [tableau |-> pivot(tableau, leaving(tableau, e), e),
                  iterations |-> iterations + 1, res |-> SimplexError("")])

(***************************************************************************)
(* SpecSimplex: main's pipeline, into_standard_form, into_canonical and    *)
(* solve(limit), one loop turn per step, on the model of main and on its   *)
(* variants in objective, direction, comparison and right-hand sides.      *)
(***************************************************************************)
SolveLimit == 1000

create_variable_names(n) == [i \in 1..n |-> "x" \o to_string(i - 1)]

\* LinearProblem::new as main calls it, with the given parts.
LinearProblem_new(objective, optimization_type, constraint_type, rhs) ==
    LinearModel_new(objective, optimization_type, 0,
                    <<LinearConstraint_new(<<1, 3, 4>>, constraint_type, rhs[1]),
                      LinearConstraint_new(<<2, 1, 3>>, constraint_type, rhs[2])>>,
                    create_variable_names(3),
                    [i \in 1..3 |-> [name |-> create_variable_names(3)[i],
                                     type |-> "NonNegativeReal"]])

MainProblem == LinearProblem_new(<<3, 4, 6>>, "Min", "Equal", <<1, 2>>)

InitSimplex ==
    /\ \E objective \in {<<3, 4, 6>>, <<6, 4, 3>>}, optimization_type \in {"Min", "Max"},
          constraint_type \in Comparisons, rhs \in {<<1, 2>>, <<2, 1>>},
          limit \in {1, SolveLimit} :
          run = [lp |-> LinearProblem_new(objective, optimization_type, constraint_type, rhs),
                 limit |-> limit, pc |-> "new", standard |-> Idle, tableau |-> Idle,
                 iterations |-> 0, res |-> SimplexError("")]
    /\ frames = <<Frame_new>>
    /\ last = Idle /\ exp = Idle /\ out = Idle /\ calls = Idle

Standardize ==
    /\ run.pc = "new"
    /\ run' = [run EXCEPT !.pc = "standard", !.standard = into_standard_form(run.lp)]
    /\ UNCHANGED <<frames, last, exp, out, calls>>

IntoCanonical ==
    /\ run.pc = "standard"
    /\ run' = With(into_canonical(run.standard, Len(run.lp.variables)), LAMBDA canonical :
                  IF canonical.ok
                  THEN [run EXCEPT !.pc = "solve", !.tableau = canonical.tableau]
                  ELSE [run EXCEPT !.pc = "done", !.res = SimplexError("NoBasis")])
    /\ UNCHANGED <<frames, last, exp, out, calls>>

Solve ==
    /\ run.pc = "solve"
    /\ run' = With(solve_step(run.tableau, run.iterations, run.limit, run.standard,
                              Len(run.lp.variables)), LAMBDA step :
                  [run EXCEPT !.pc = IF step.res.kind = "" THEN "solve" ELSE "done",
                              !.tableau = step.tableau,
                              !.iterations = step.iterations,
                              !.res = step.res])
    /\ UNCHANGED <<frames, last, exp, out, calls>>

NextSimplex == Standardize \/ IntoCanonical \/ Solve

SpecSimplex == InitSimplex /\ [][NextSimplex]_vars

\* The left-hand side of a constraint at the values of the variables.
RECURSIVE Substitute(_, _, _)
Substitute(coefficients, values, i) ==
    IF i = 0 THEN Whole(0)
    ELSE add(Substitute(coefficients, values, i - 1), mul(Whole(coefficients[i]), values[i]))

Holds(constraint, values) ==
    With(Substitute(constraint.coefficients, values, Len(constraint.coefficients)),
         LAMBDA lhs :
            CASE constraint.constraint_type = "Equal" -> lhs = Whole(constraint.rhs)
              [] constraint.constraint_type = "LessOrEqual" -> ~less(Whole(constraint.rhs), lhs)
              [] OTHER -> ~less(lhs, Whole(constraint.rhs)))

SatisfiesOriginal(lp, values) ==
    /\ \A i \in 1..Len(lp.variables) : ~less(values[i], Whole(0))
    /\ \A k \in 1..Len(lp.constraints) : Holds(lp.constraints[k], values)

MainDone == run.pc = "done" /\ run.lp = MainProblem /\ run.limit = SolveLimit

Exp_Min(exps) == [t |-> "Min", exps |-> exps]
Exp_Max(exps) == [t |-> "Max", exps |-> exps]

Wrapped ==
    UNION {{Exp_Mod(e), Exp_Min(<<e, Exp_Number(2)>>), Exp_Max(<<e>>)} : e \in NestedProducts}

VariableValues == {0 - 3, 0, 1, 2}

InitValue ==
    /\ exp \in Exps \cup Wrapped
    /\ out = [n |-> 0, e |-> exp, prev |-> exp]
    /\ \E x \in VariableValues : run = [x |-> x]
    /\ frames = Idle /\ last = Idle /\ calls = Idle

FlattenValue ==
    /\ out.n < 1
    /\ out' = [n |-> out.n + 1, e |-> flatten(out.e), prev |-> out.e]
    /\ UNCHANGED <<exp, frames, last, calls, run>>

NextValue == FlattenValue

SpecValue == InitValue /\ [][NextValue]_vars

\* Built from Number, Variable, Add, Sub, Mul and unary negation only.
RECURSIVE Evaluable(_)
Evaluable(e) ==
    CASE e.t = "BinOp" -> e.op \in {"Add", "Sub", "Mul"} /\ Evaluable(e.lhs) /\ Evaluable(e.rhs)
      [] e.t = "UnOp" -> e.op = "Neg" /\ Evaluable(e.e)
      [] e.t \in {"Number", "Variable"} -> TRUE
      [] OTHER -> FALSE

\* The number an evaluable expression denotes when its variable is x.
RECURSIVE Value(_, _)
Value(e, x) ==
    CASE e.t = "Number" -> e.v
      [] e.t = "Variable" -> x
      [] e.t = "UnOp" -> 0 - Value(e.e, x)
      [] e.t = "BinOp" /\ e.op = "Add" -> Value(e.lhs, x) + Value(e.rhs, x)
      [] e.t = "BinOp" /\ e.op = "Sub" -> Value(e.lhs, x) - Value(e.rhs, x)
      [] e.t = "BinOp" /\ e.op = "Mul" -> Value(e.lhs, x) * Value(e.rhs, x)

\* C24: flatten preserves the value of an expression built from Number,
\* Variable, Add, Sub, Mul and unary negation, for every value of its
\* variable, and returns an expression whose root is no BinOp unchanged.
C24_FlattenValue ==
    out.n = 1 =>
        /\ Evaluable(exp) => Evaluable(out.e) /\ Value(out.e, run.x) = Value(exp, run.x)
        /\ exp.t # "BinOp" => out.e = exp

\* A product with a sum as its right operand, under a product with a negation:
\* flatten rewrites it, at a value of the variable where a dropped sign or
\* operand would show.
C24_Witness ==
    /\ out.n = 1
    /\ exp = Exp_BinOp("Mul", Exp_UnOp("Neg", Exp_Variable("x")),
                       Exp_BinOp("Sub", Exp_Variable("x"), Exp_Number(2)))
    /\ out.e # exp
    /\ run.x = 0 - 3
    /\ Value(out.e, run.x) = 0 - 15

\* C25: across the scope operations (add_scope, add_populated_scope,
\* pop_scope, replace_last_frame) the bottom frame of the stack stays the
\* root frame: no scope operation removes it or replaces its bindings, at any
\* stack depth including depth 1.
C25_RootFrameStays ==
    last.op \in {"add_scope", "add_populated_scope", "pop_scope", "replace_last_frame"}
    => /\ Len(frames) >= 1
       /\ frames[1] = last.before[1]

(***************************************************************************)
(* TypeCheckerContext::check_compound_variable, on frames of kinds.  A     *)
(* checker frame maps every name to a PrimitiveKind, NoKind if unbound.    *)
(***************************************************************************)
CheckOk == [ok |-> TRUE, err |-> "", name |-> ""]
CheckErr(kind, name) == [ok |-> FALSE, err |-> kind, name |-> name]

\* The body of the for loop, for one index name.
check_one(tfs, name) ==
    With(TypeCheckerContext_get_value(tfs, name), LAMBDA value :
        IF value = NoKind THEN CheckErr("MissingVariable", name)
        ELSE IF value \in {PrimitiveKind_Number, PrimitiveKind_String, PrimitiveKind_GraphNode}
        THEN CheckOk
        ELSE CheckErr("WrongArgument", name))

\* The loop returns at the first name that fails.
RECURSIVE check_compound_variable_from(_, _, _)
check_compound_variable_from(tfs, compound_name, k) ==
    IF k > Len(compound_name) THEN CheckOk
    ELSE IF ~check_one(tfs, compound_name[k]).ok THEN check_one(tfs, compound_name[k])
    ELSE check_compound_variable_from(tfs, compound_name, k + 1)

check_compound_variable(tfs, compound_name) ==
    check_compound_variable_from(tfs, compound_name, 1)

(***************************************************************************)
(* SpecCheck: check_compound_variable and flatten_variable_name on the     *)
(* same index names, the checker frames holding the kinds of the values of *)
(* the evaluator frames.                                                   *)
(***************************************************************************)
CheckValues ==
    NameValues \cup {Undefined, Primitive_Iterable(IterableKind_Numbers(<<1>>))}

CheckContexts(roots) ==
    {<<r>> : r \in roots} \cup {<<r, Bind("i", Boolean(TRUE))>> : r \in roots}
    \cup {<<Bind("i", Boolean(TRUE)), r>> : r \in roots}

InitCheck ==
    /\ frames \in CheckContexts([Names -> CheckValues \cup {Absent}])
    /\ \E indexes \in IndexLists :
          run = [indexes |-> indexes, tframes |-> KindsOf(frames), done |-> FALSE,
                 checked |-> CheckOk, flat |-> OkStr("")]
    /\ last = Idle /\ exp = Idle /\ out = Idle /\ calls = Idle

CheckAndFlatten ==
    /\ ~run.done
    /\ run' = [run EXCEPT !.done = TRUE,
                          !.checked = check_compound_variable(run.tframes, run.indexes),
                          !.flat = flatten_variable_name(frames, run.indexes)]
    /\ UNCHANGED <<frames, last, exp, out, calls>>

NextCheck == CheckAndFlatten

SpecCheck == InitCheck /\ [][NextCheck]_vars

\* C26: check_compound_variable succeeds exactly when flatten_variable_name
\* succeeds, and when they fail they report the same error kind
\* (MissingVariable or WrongArgument) for the same leftmost index name.
C26_CheckerAgrees ==
    run.done =>
        /\ run.checked.ok <=> run.flat.ok
        /\ ~run.flat.ok =>
              /\ run.checked.err = run.flat.err
              /\ run.checked.name = run.flat.name
              /\ run.flat.err \in {"MissingVariable", "WrongArgument"}

(***************************************************************************)
(* SpecKind: PrimitiveKind::from_primitive on a value, next to the kind of *)
(* a scalar, of a flat array and of an array of arrays of numbers.         *)
(***************************************************************************)
NumberShapes ==
    {Number(1), Primitive_Iterable(IterableKind_Numbers(<<1, 2>>)),
     Primitive_Iterable(IterableKind_Iterable(<<IterableKind_Numbers(<<1, 2>>)>>))}

InitKind ==
    /\ \E value \in ReadValues \cup {String("a"), Boolean(TRUE)}, other \in NumberShapes :
          run = [value |-> value, other |-> other, done |-> FALSE,
                 kind |-> NoKind, other_kind |-> NoKind]
    /\ frames = <<Frame_new>>
    /\ last = Idle /\ exp = Idle /\ out = Idle /\ calls = Idle

GetType ==
    /\ ~run.done
    /\ run' = [run EXCEPT !.done = TRUE, !.kind = from_primitive(run.value),
                          !.other_kind = from_primitive(run.other)]
    /\ UNCHANGED <<frames, last, exp, out, calls>>

NextKind == GetType

SpecKind == InitKind /\ [][NextKind]_vars

\* How many arrays are around the elements of a value: 0 for a scalar.
RECURSIVE NestingOf(_)
NestingOf(i) ==
    IF i.kind = "Iterable"
    THEN IF Len(i.value) = 0 THEN 2 ELSE 1 + NestingOf(i.value[1])
    ELSE 1

Nesting(p) == IF p.kind = "Iterable" THEN NestingOf(p.iter) ELSE 0

\* The kind of the elements of an iterable, when it has a first element.
RECURSIVE ElementKind(_)
ElementKind(i) ==
    CASE i.kind = "Numbers" -> PrimitiveKind_Number
      [] i.kind = "Strings" -> PrimitiveKind_String
      [] i.kind = "Booleans" -> PrimitiveKind_Boolean
      [] i.kind = "Iterable" ->
            IF Len(i.value) = 0 THEN PrimitiveKind_Undefined
            ELSE PrimitiveKind_Iterable(ElementKind(i.value[1]))

\* C27: get_type gives an iterable value whose elements have kind k the kind
\* Iterable(k), so a flat array of numbers has kind Iterable(Number), an array
\* of number arrays Iterable(Iterable(Number)), and values of different
\* nesting (scalar, flat array, array of arrays) have different kinds.
C27_IterableKinds ==
    run.done =>
        /\ run.value.kind = "Iterable"
           => run.kind = PrimitiveKind_Iterable(ElementKind(run.value.iter))
        /\ Nesting(run.value) # Nesting(run.other) => run.kind # run.other_kind

(***************************************************************************)
(* flatten_primitive_array_values: the kind of the first value chooses the *)
(* arm, and each arm unwraps every value or fails at the first value of    *)
(* another variant.                                                        *)
(***************************************************************************)
IterableKind_Anys(v) == [kind |-> "Anys", value |-> v]
IterableKind_Nodes(v) == [kind |-> "Nodes", value |-> v]
IterableKind_Iterables(v) == [kind |-> "Iterables", value |-> v]

\* What the closure of an arm takes out of a value of the variant it expects.
unwrap(v) ==
    CASE v.kind = "Number" -> v.num
      [] v.kind = "Boolean" -> v.num = 1
      [] v.kind = "Iterable" -> v.iter
      [] OTHER -> v.str

\* values.into_iter().map(..).collect::<Result<Vec<_>, String>>() for the arm
\* that expects the given variant.
collect_values(values, variant) ==
    IF \E k \in 1..Len(values) : values[k].kind # variant
    THEN RErr("Expected " \o variant)
    ELSE ROk([k \in 1..Len(values) |-> unwrap(values[k])])

wrap(collected, iterable(_)) ==
    IF collected.ok THEN ROk(Primitive_Iterable(iterable(collected.val))) ELSE collected

flatten_primitive_array_values(values) ==
    IF Len(values) = 0 THEN ROk(Primitive_Iterable(IterableKind_Anys(<<>>)))
    ELSE With(Head(from_primitive(values[1])), LAMBDA first_kind :
        CASE first_kind = "Boolean" ->
                wrap(collect_values(values, "Boolean"), IterableKind_Booleans)
          [] first_kind = "Number" ->
                wrap(collect_values(values, "Number"), IterableKind_Numbers)
          [] first_kind = "String" ->
                wrap(collect_values(values, "String"), IterableKind_Strings)
          [] first_kind = "GraphNode" ->
                wrap(collect_values(values, "GraphNode"), IterableKind_Nodes)
          [] first_kind = "Iterable" ->
                wrap(collect_values(values, "Iterable"), IterableKind_Iterables)
          [] first_kind = "Undefined" ->
                ROk(Primitive_Iterable(IterableKind_Numbers(<<>>))))

(***************************************************************************)
(* SpecArray: flatten_primitive_array_values on every array of at most     *)
(* MaxValues values, of one variant or mixed.                              *)
(***************************************************************************)
MaxValues == 2

ArrayValues ==
    {Number(1), Number(2), String("a"), Boolean(TRUE), GraphNode("n"), Undefined,
     Primitive_Iterable(IterableKind_Numbers(<<1>>)),
     Primitive_Iterable(IterableKind_Iterable(<<IterableKind_Numbers(<<1>>)>>))}

InitArray ==
    /\ \E n \in 0..MaxValues : \E values \in [1..n -> ArrayValues] :
          run = [values |-> values, done |-> FALSE, res |-> RErr("")]
    /\ frames = <<Frame_new>>
    /\ last = Idle /\ exp = Idle /\ out = Idle /\ calls = Idle

FlattenPrimitiveArrayValues ==
    /\ ~run.done
    /\ run' = [run EXCEPT !.done = TRUE, !.res = flatten_primitive_array_values(run.values)]
    /\ UNCHANGED <<frames, last, exp, out, calls>>

NextArray == FlattenPrimitiveArrayValues

SpecArray == InitArray /\ [][NextArray]_vars

\* The variant of iterable that holds values of the variant of a primitive.
IterableOf(variant) ==
    CASE variant = "Number" -> "Numbers"
      [] variant = "String" -> "Strings"
      [] variant = "Boolean" -> "Booleans"
      [] variant = "GraphNode" -> "Nodes"
      [] variant = "Iterable" -> "Iterables"
      [] OTHER -> "Anys"

SameVariant(values) == \A k \in 1..Len(values) : values[k].kind = values[1].kind

\* C28: the result is Ok exactly when every value has the variant of the
\* first, and then it is an iterable of the variant the first value
\* determines that holds exactly the input values in input order; the empty
\* input gives an empty iterable, a value of another variant gives an error.
C28_FlattenArray ==
    run.done =>
        /\ run.res.ok <=> SameVariant(run.values)
        /\ run.res.ok =>
              /\ run.res.val.kind = "Iterable"
              /\ Len(run.res.val.iter.value) = Len(run.values)
              /\ \A k \in 1..Len(run.values) :
                    run.res.val.iter.value[k] = unwrap(run.values[k])
              /\ Len(run.values) > 0
                 => run.res.val.iter.kind \in {IterableOf(run.values[1].kind), "Anys"}

(***************************************************************************)
(* The frame stack of TypeCheckerContext: the same Frame type, holding     *)
(* kinds.  Each operation returns the new stack and its result.            *)
(***************************************************************************)
KindFrame_new == [n \in Names |-> NoKind]

TypeCheckerContext_add_scope(tfs) ==
    [frames |-> Append(tfs, KindFrame_new), res |-> Ok(Unit)]

TypeCheckerContext_pop_scope(tfs) ==
    IF Len(tfs) <= 1
    THEN [frames |-> tfs, res |-> Err("Other", "Missing frame to pop")]
    ELSE [frames |-> SubSeq(tfs, 1, Len(tfs) - 1), res |-> Ok(Unit)]

TypeCheckerContext_declare_variable(tfs, name, value, strict) ==
    IF strict /\ TypeCheckerContext_get_value(tfs, name) # NoKind
    THEN [frames |-> tfs, res |-> Err("AlreadyExistingVariable", name)]
    ELSE IF tfs[Len(tfs)][name] # NoKind
    THEN [frames |-> tfs, res |-> Err("AlreadyExistingVariable", name)]
    ELSE [frames |-> [tfs EXCEPT ![Len(tfs)][name] = value], res |-> Ok(Unit)]

(***************************************************************************)
(* SpecScopes: the same calls of add_scope, pop_scope and declare_variable *)
(* made on a TransformerContext and on a TypeCheckerContext built from the *)
(* same constants.                                                         *)
(***************************************************************************)
InitScopes ==
    /\ \E primitives \in RootFrames : frames = TransformerContext_new(primitives)
    /\ run = [tframes |-> KindsOf(frames), op |-> "new", name |-> "",
              evaluated |-> Ok(Unit), checked |-> Ok(Unit)]
    /\ last = Idle /\ exp = Idle /\ out = Idle /\ calls = Idle

Both(op, name, r, t) ==
    /\ Len(r.frames) <= MaxFrames
    /\ Bindings(r.frames) <= MaxBindings
    /\ frames' = r.frames
    /\ run' = [tframes |-> t.frames, op |-> op, name |-> name,
               evaluated |-> r.res, checked |-> t.res]
    /\ UNCHANGED <<last, exp, out, calls>>

BothAddScope ==
    Both("add_scope", "", add_scope(frames), TypeCheckerContext_add_scope(run.tframes))

BothPopScope ==
    Both("pop_scope", "", pop_scope(frames), TypeCheckerContext_pop_scope(run.tframes))

BothDeclareVariable ==
    \E name \in Names, value \in CtxValues, strict \in BOOLEAN :
        Both("declare_variable", name, declare_variable(frames, name, value, strict),
             TypeCheckerContext_declare_variable(run.tframes, name, from_primitive(value),
                                                 strict))

NextScopes == BothAddScope \/ BothPopScope \/ BothDeclareVariable

SpecScopes == InitScopes /\ [][NextScopes]_vars

\* C29: each call of add_scope, pop_scope and declare_variable, the sink name
\* included, succeeds on the TypeCheckerContext exactly when the same call
\* succeeds on the TransformerContext.
C29_SameAcceptance == run.checked.ok <=> run.evaluated.ok

(***************************************************************************)
(* Display for Exp, with Op::precedence and Op::to_string.                 *)
(***************************************************************************)
precedence(op) == IF op \in {"Add", "Sub"} THEN 1 ELSE 2

Op_to_string(op) ==
    CASE op = "Add" -> "+" [] op = "Sub" -> "-" [] op = "Mul" -> "*" [] op = "Div" -> "/"
      [] op = "Neg" -> "-"

is_leaf(e) == e.t \in {"BinOp", "UnOp"}

RECURSIVE to_string_with_precedence(_, _)
RECURSIVE Exp_to_string(_)

to_string_with_precedence(e, last_precedence) ==
    IF e.t = "BinOp"
    THEN With(to_string_with_precedence(e.lhs, precedence(e.op)) \o " " \o Op_to_string(e.op)
                 \o " " \o to_string_with_precedence(e.rhs, precedence(e.op)),
              LAMBDA s : IF precedence(e.op) < last_precedence THEN "(" \o s \o ")" ELSE s)
    ELSE Exp_to_string(e)

\* impl Display for Exp
Exp_to_string(e) ==
    CASE e.t = "Number" -> to_string(e.v)
      [] e.t = "Variable" -> e.name
      [] e.t = "Mod" -> "|" \o Exp_to_string(e.e) \o "|"
      [] e.t = "BinOp" ->
            to_string_with_precedence(e.lhs, precedence(e.op)) \o " " \o Op_to_string(e.op)
                \o " " \o to_string_with_precedence(e.rhs, precedence(e.op))
      [] e.t = "UnOp" ->
            IF is_leaf(e.e) THEN Op_to_string(e.op) \o Exp_to_string(e.e)
            ELSE Op_to_string(e.op) \o "(" \o Exp_to_string(e.e) \o ")"

(***************************************************************************)
(* SpecPrint: the printed form of every expression of at most              *)
(* MaxPrintNodes nodes.                                                    *)
(***************************************************************************)
MaxPrintNodes == 5

PrintExps(n) == UNION {ExpsOfSize[k] : k \in 1..n}

InitPrint ==
    /\ exp \in PrintExps(MaxPrintNodes)
    /\ out = [done |-> FALSE, text |-> ""]
    /\ frames = Idle /\ last = Idle /\ calls = Idle /\ run = Idle

Display ==
    /\ ~out.done
    /\ out' = [done |-> TRUE, text |-> Exp_to_string(exp)]
    /\ UNCHANGED <<exp, frames, last, calls, run>>

NextPrint == Display

SpecPrint == InitPrint /\ [][NextPrint]_vars

DifferentValues(e, other) ==
    /\ Evaluable(e) /\ Evaluable(other)
    /\ \E x \in VariableValues : Value(e, x) # Value(other, x)

\* C30: the printed form groups operands as the tree does, so two
\* expressions with different trees and different values never print the
\* same text; in particular a BinOp that is the right operand of a Sub of the
\* same precedence, and a BinOp under unary negation, is printed in
\* parentheses.
C30_PrintGroups ==
    out.done =>
        \A other \in PrintExps(MaxPrintNodes) :
            DifferentValues(exp, other) => Exp_to_string(other) # out.text

====
